---- MODULE Spec2Model ----
(***************************************************************************)
(* Circuit synthesis engine of src/main.py: the per-family pin allocators, *)
(* the component wiring rules of generate_with_patterns, the wire router,  *)
(* the automatic resistor insertion and the diagram assembly.              *)
(*                                                                         *)
(* Python values are modelled as follows.                                  *)
(*   str            a TLA+ string                                          *)
(*   int            a TLA+ integer                                         *)
(*   a pin          <<"int", n>> or <<"str", s>>: the pin lists of the     *)
(*                  allocators hold ints (2, 3, ...) and strs ('A0'); the  *)
(*                  set used_pins holds both kinds and str(pin) converts   *)
(*   list           a sequence (index 0 of Python is index 1 here)         *)
(*   part dict      a record [type, id, top, left, attrs]                  *)
(*   connection     a 4-tuple <<source, target, color, path>>              *)
(***************************************************************************)
EXTENDS Integers, Sequences, FiniteSets, TLC

VARIABLES
    pin_allocator,  \* the PinAllocator object of the running synthesis call
    step_calls,     \* history: the pool calls made by the latest step
    handed,         \* history: pins returned by pool calls before that step
    fell_back,      \* history: some pool call has already returned a fallback
    ground_log,     \* history: the pins returned by get_ground, in call order
    pc,             \* position of the generator: "idle", "wiring", "done"
    parts,          \* the parts list of the current synthesis call
    mcu,            \* the hub part found by the call (NoPart if none)
    part_idx,       \* loop position of `for part in parts` (parts done)
    connections,    \* the connection list built so far
    document,       \* the document returned by the last finished call
    remembered,     \* history: one earlier call, its input and its document
    environ,        \* os.environ: the variables that are set, with their values
    gemini_api_key, \* RAGCircuitGenerator.gemini_api_key: <<>> (None) or <<str>>
    model_trainer,  \* RAGCircuitGenerator.model_trainer: "none" or "loaded"
    oracle,         \* history: what the oracles answered during generate_diagram
    result,         \* the value generate_diagram returned
    paths      \* the mapping a direct calculate_wire_paths call returned

vars == <<pin_allocator, step_calls, handed, fell_back, ground_log,
          pc, parts, mcu, part_idx, connections, document, remembered,
          environ, gemini_api_key, model_trainer, oracle, result, paths>>

\* what generate_with_patterns leaves alone
genVars == <<environ, gemini_api_key, model_trainer, oracle, result, paths>>

allocVars == <<pin_allocator, step_calls, handed, fell_back, ground_log>>
callVars == <<pc, parts, mcu, part_idx, connections, document>>

(***************************************************************************)
(* Strings                                                                 *)
(***************************************************************************)

\* Python `sub in s`
Contains(sub, s) ==
    \E k \in 1..(Len(s) - Len(sub) + 1) : SubSeq(s, k, k + Len(sub) - 1) = sub

\* Python s.startswith(pre)
StartsWith(s, pre) ==
    Len(pre) <= Len(s) /\ SubSeq(s, 1, Len(pre)) = pre

\* Python s.endswith(suf)
EndsWith(s, suf) ==
    Len(suf) <= Len(s) /\ SubSeq(s, Len(s) - Len(suf) + 1, Len(s)) = suf

Upper == "ABCDEFGHIJKLMNOPQRSTUVWXYZ"
LowerLetters == "abcdefghijklmnopqrstuvwxyz"

LowerOf == [c \in {SubSeq(Upper, k, k) : k \in 1..Len(Upper)} |->
               LET k == CHOOSE k \in 1..Len(Upper) : SubSeq(Upper, k, k) = c
               IN  SubSeq(LowerLetters, k, k)]

LowerChar(c) == IF c \in DOMAIN LowerOf THEN LowerOf[c] ELSE c

RECURSIVE Lower(_)
\* Python s.lower()
Lower(s) ==
    IF Len(s) = 0 THEN ""
    ELSE LowerChar(SubSeq(s, 1, 1)) \o Lower(SubSeq(s, 2, Len(s)))

\* Python str(n) of an int
IntStr(n) == ToString(n)

\* Python min(a, b) and max(a, b)
Min(a, b) == IF a <= b THEN a ELSE b
Max(a, b) == IF a >= b THEN a ELSE b

\* the text before and after the first ":" of a pin reference "part_id:pin"
ColonAt(ref) == CHOOSE k \in 1..Len(ref) :
                    /\ SubSeq(ref, k, k) = ":"
                    /\ \A j \in 1..(k - 1) : SubSeq(ref, j, j) # ":"
PartOfRef(ref) == SubSeq(ref, 1, ColonAt(ref) - 1)
PinOfRef(ref) == SubSeq(ref, ColonAt(ref) + 1, Len(ref))

(***************************************************************************)
(* Part types                                                              *)
(***************************************************************************)

McuTypes ==
    {"wokwi-arduino-uno", "wokwi-arduino-nano", "wokwi-arduino-mega",
     "wokwi-esp32-devkit-v1"}

PeripheralTypes ==
    {"board-ssd1306", "board-ili9341-cap-touch", "wokwi-microsd-card",
     "wokwi-pushbutton", "wokwi-buzzer", "wokwi-led", "wokwi-resistor",
     "wokwi-dht22", "wokwi-servo", "wokwi-hc-sr04", "wokwi-potentiometer",
     "mystery-module"}

\* the part types a caller of Spec may use
Catalog == {"wokwi-arduino-uno", "wokwi-ESP32-devkit-v1"} \cup PeripheralTypes

\* the peripherals of SpecDeep: rules that take three, two and one digital
\* pin, a PWM pin, and a rule that calls get_ground and one that does not
DeepTypes ==
    {"board-ili9341-cap-touch", "wokwi-resistor", "wokwi-pushbutton",
     "wokwi-servo", "mystery-module"}

SessionTypes == {"wokwi-led", "wokwi-servo", "wokwi-pushbutton"}

\* the peripherals of SpecInserter: the two kinds the inserter protects, a
\* standalone resistor and a part it has nothing to do with
InserterTypes == {"wokwi-led", "wokwi-piezo-buzzer", "wokwi-resistor", "wokwi-pushbutton"}

KnownTypes ==
    McuTypes \cup Catalog \cup DeepTypes \cup SessionTypes \cup InserterTypes

\* Lower on the part types above, computed once
LowerTable == [t \in KnownTypes |-> Lower(t)]

\* part['type'].lower()
LowerType(t) == IF t \in DOMAIN LowerTable THEN LowerTable[t] ELSE Lower(t)


(***************************************************************************)
(* Pins                                                                    *)
(***************************************************************************)

IntPin(n) == <<"int", n>>
StrPin(s) == <<"str", s>>

\* Python str(pin)
Str(pin) == IF pin[1] = "int" THEN IntStr(pin[2]) ELSE pin[2]

IntPins(seq) == [k \in 1..Len(seq) |-> IntPin(seq[k])]
StrPins(seq) == [k \in 1..Len(seq) |-> StrPin(seq[k])]

\* Python list(range(lo, hi))
Range(lo, hi) == [k \in 1..(hi - lo) |-> lo + k - 1]

(***************************************************************************)
(* Pin allocators                                                          *)
(***************************************************************************)

Uno == "ArduinoUnoPinAllocator"
Nano == "ArduinoNanoPinAllocator"
Mega == "ArduinoMegaPinAllocator"
Esp32 == "ESP32PinAllocator"
AllocatorClasses == {Uno, Nano, Mega, Esp32}

\* self.digital_pins, self.analog_pins and self.pwm_pins of each __init__
UnoDigitalPins == IntPins(<<2, 3, 4, 5, 6, 7, 8, 9, 10, 11, 12, 13>>)
UnoAnalogPins == StrPins(<<"A0", "A1", "A2", "A3">>)
UnoPwmPins == IntPins(<<3, 5, 6, 9, 10, 11>>)
MegaDigitalPins == IntPins(Range(2, 54))
MegaAnalogPins == StrPins([k \in 1..16 |-> "A" \o IntStr(k - 1)])
MegaPwmPins == IntPins(<<2, 3, 4, 5, 6, 7, 8, 9, 10, 11, 12, 13, 44, 45, 46>>)
Esp32DigitalPins ==
    IntPins(<<2, 4, 5, 12, 13, 14, 15, 16, 17, 18, 19, 23, 25, 26, 27, 32, 33>>)
Esp32AnalogPins == IntPins(<<32, 33, 34, 35, 36, 39>>)
Esp32PwmPins ==
    IntPins(<<2, 4, 5, 12, 13, 14, 15, 16, 17, 18, 19, 23, 25, 26, 27>>)

digital_pins(cls) ==
    CASE cls \in {Uno, Nano} -> UnoDigitalPins
      [] cls = Mega -> MegaDigitalPins
      [] cls = Esp32 -> Esp32DigitalPins

analog_pins(cls) ==
    CASE cls \in {Uno, Nano} -> UnoAnalogPins
      [] cls = Mega -> MegaAnalogPins
      [] cls = Esp32 -> Esp32AnalogPins

pwm_pins(cls) ==
    CASE cls \in {Uno, Nano} -> UnoPwmPins
      [] cls = Mega -> MegaPwmPins
      [] cls = Esp32 -> Esp32PwmPins

get_ground_pins(cls) ==
    CASE cls \in {Uno, Nano} -> <<"GND.1", "GND.2", "GND.3">>
      [] cls = Mega -> <<"GND.1", "GND.2", "GND.3", "GND.4">>
      [] cls = Esp32 -> <<"GND.1", "GND.2", "GND.3">>

get_power_5v(cls) == "5V"

get_power_3v3(cls) == "3.3V"

\* a lookup that gives the Uno's SDA pin for every family
get_i2c_sda_uno_everywhere(cls) == "A4"

get_i2c_sda(cls) ==
    CASE cls \in {Uno, Nano} -> "A4"
      [] cls = Mega -> "20"
      [] cls = Esp32 -> "21"

get_i2c_scl(cls) ==
    CASE cls \in {Uno, Nano} -> "A5"
      [] cls = Mega -> "21"
      [] cls = Esp32 -> "22"

get_spi_pins(cls) ==
    CASE cls \in {Uno, Nano} -> [mosi |-> "11", miso |-> "12", sck |-> "13"]
      [] cls = Mega -> [mosi |-> "51", miso |-> "50", sck |-> "52"]
      [] cls = Esp32 -> [mosi |-> "23", miso |-> "19", sck |-> "18"]

\* the `return ...  # Fallback` line of each operation
DigitalFallback(cls) == "2"

AnalogFallback(cls) == IF cls = Esp32 THEN "32" ELSE "A0"

\* every family given the fallback of the ESP32
PwmFallback_esp32_everywhere(cls) == "2"

PwmFallback(cls) == IF cls = Esp32 THEN "2" ELSE "3"

\* PinAllocator.__init__ followed by the __init__ of the subclass
NewAllocator(cls) ==
    [cls |-> cls,
     used_pins |-> {},
     digital_pin_idx |-> 0,
     analog_pin_idx |-> 0,
     pwm_pin_idx |-> 0,
     ground_pin_idx |-> 0]

\* The result of one allocator operation: the value returned, the allocator
\* afterwards, and whether the `# Fallback` return was taken.
Returned(pin, alloc, fallback) == [pin |-> pin, alloc |-> alloc, fallback |-> fallback]

\* get_ground that stays on the last ground pin instead of wrapping around
get_ground_saturating(a) ==
    LET ground_pins == get_ground_pins(a.cls)
        current_gnd == ground_pins[Min(a.ground_pin_idx, Len(ground_pins) - 1) + 1]
    IN  Returned(current_gnd, [a EXCEPT !.ground_pin_idx = @ + 1], FALSE)

\* PinAllocator.get_ground
get_ground(a) ==
    LET ground_pins == get_ground_pins(a.cls)
        current_gnd == ground_pins[(a.ground_pin_idx % Len(ground_pins)) + 1]
    IN  Returned(current_gnd, [a EXCEPT !.ground_pin_idx = @ + 1], FALSE)

\* get_next_digital without the `if pin not in self.used_pins` test
get_next_digital_unchecked(a) ==
    IF a.digital_pin_idx < Len(digital_pins(a.cls))
    THEN LET pin == digital_pins(a.cls)[a.digital_pin_idx + 1]
         IN  Returned(Str(pin),
                      [a EXCEPT !.digital_pin_idx = @ + 1, !.used_pins = @ \cup {pin}],
                      FALSE)
    ELSE Returned(DigitalFallback(a.cls), a, TRUE)

RECURSIVE get_next_digital(_)
get_next_digital(a) ==
    IF a.digital_pin_idx < Len(digital_pins(a.cls))
    THEN LET pin == digital_pins(a.cls)[a.digital_pin_idx + 1]
             a1 == [a EXCEPT !.digital_pin_idx = @ + 1]
         IN  IF pin \notin a1.used_pins
             THEN Returned(Str(pin), [a1 EXCEPT !.used_pins = @ \cup {pin}], FALSE)
             ELSE get_next_digital(a1)
    ELSE Returned(DigitalFallback(a.cls), a, TRUE)

\* Uno, Nano and Mega return the str pin itself, ESP32 returns str(pin)
AnalogResult(cls, pin) == IF cls = Esp32 THEN Str(pin) ELSE pin[2]

RECURSIVE get_next_analog(_)
get_next_analog(a) ==
    IF a.analog_pin_idx < Len(analog_pins(a.cls))
    THEN LET pin == analog_pins(a.cls)[a.analog_pin_idx + 1]
             a1 == [a EXCEPT !.analog_pin_idx = @ + 1]
         IN  IF pin \notin a1.used_pins
             THEN Returned(AnalogResult(a.cls, pin),
                           [a1 EXCEPT !.used_pins = @ \cup {pin}], FALSE)
             ELSE get_next_analog(a1)
    ELSE Returned(AnalogFallback(a.cls), a, TRUE)

get_next_pwm(a) ==
    LET pins == pwm_pins(a.cls)
        free == {k \in 1..Len(pins) : pins[k] \notin a.used_pins}
    IN  IF free # {}
        THEN LET k == CHOOSE k \in free : \A j \in free : k <= j
             IN  Returned(Str(pins[k]), [a EXCEPT !.used_pins = @ \cup {pins[k]}], FALSE)
        ELSE Returned(PwmFallback(a.cls), a, TRUE)

\* RAGCircuitGenerator.get_pin_allocator
\* no allocator exists: before the first call and after a call without MCU
NoAllocator == [cls |-> "none"]

\* a generator that keeps one allocator and hands it to every later call
get_pin_allocator_shared(mcu_type) ==
    LET mcu_type_lower == LowerType(mcu_type)
    IN  IF pin_allocator # NoAllocator THEN pin_allocator
        ELSE IF Contains("esp32", mcu_type_lower) THEN NewAllocator(Esp32)
        ELSE IF Contains("mega", mcu_type_lower) THEN NewAllocator(Mega)
        ELSE IF Contains("uno", mcu_type_lower) THEN NewAllocator(Uno)
        ELSE IF Contains("nano", mcu_type_lower) THEN NewAllocator(Nano)
        ELSE NewAllocator(Uno)

get_pin_allocator(mcu_type) ==
    LET mcu_type_lower == LowerType(mcu_type)
    IN  IF Contains("esp32", mcu_type_lower) THEN NewAllocator(Esp32)
        ELSE IF Contains("mega", mcu_type_lower) THEN NewAllocator(Mega)
        ELSE IF Contains("uno", mcu_type_lower) THEN NewAllocator(Uno)
        ELSE IF Contains("nano", mcu_type_lower) THEN NewAllocator(Nano)
        ELSE NewAllocator(Uno)


(***************************************************************************)
(* History of the pool calls (not program state)                           *)
(***************************************************************************)

PoolOps == {"digital", "analog", "pwm"}

PoolOf(cls, op) ==
    CASE op = "digital" -> digital_pins(cls)
      [] op = "analog" -> analog_pins(cls)
      [] op = "pwm" -> pwm_pins(cls)

\* no pin of the pool of `op` is unused
PoolExhausted(a, op) ==
    LET pool == PoolOf(a.cls, op)
    IN  \A k \in 1..Len(pool) : pool[k] \in a.used_pins

FallbackOf(cls, op) ==
    CASE op = "digital" -> DigitalFallback(cls)
      [] op = "analog" -> AnalogFallback(cls)
      [] op = "pwm" -> PwmFallback(cls)

\* one allocator operation, selected by name
Invoke(a, op) ==
    CASE op = "digital" -> get_next_digital(a)
      [] op = "analog" -> get_next_analog(a)
      [] op = "pwm" -> get_next_pwm(a)
      [] op = "ground" -> get_ground(a)

\* the record kept of one call: what was asked, what came back, the cursor
\* positions before and after, and whether the pool was exhausted before
CallRecord(a, op, r) ==
    [op |-> op, pin |-> r.pin, fallback |-> r.fallback,
     exhausted |-> IF op \in PoolOps THEN PoolExhausted(a, op) ELSE FALSE,
     digital_before |-> a.digital_pin_idx, digital_after |-> r.alloc.digital_pin_idx,
     ground_before |-> a.ground_pin_idx, ground_after |-> r.alloc.ground_pin_idx]

RECURSIVE RunCalls(_, _)
\* the allocator operations `ops` called in this order on allocator a:
\* the pins returned, the allocator afterwards and the call records
RunCalls(a, ops) ==
    IF ops = <<>> THEN [pins |-> <<>>, alloc |-> a, calls |-> <<>>]
    ELSE LET r == Invoke(a, Head(ops))
             rest == RunCalls(r.alloc, Tail(ops))
         IN  [pins |-> <<r.pin>> \o rest.pins,
              alloc |-> rest.alloc,
              calls |-> <<CallRecord(a, Head(ops), r)>> \o rest.calls]

PoolPinsOf(calls) == {calls[k].pin : k \in {j \in 1..Len(calls) : calls[j].op \in PoolOps}}

GroundPinsOf(calls) ==
    LET F[k \in 0..Len(calls)] ==
            IF k = 0 THEN <<>>
            ELSE IF calls[k].op = "ground" THEN F[k - 1] \o <<calls[k].pin>> ELSE F[k - 1]
    IN  F[Len(calls)]

\* the history after a step that made the calls `calls`
Record(calls) ==
    /\ step_calls' = calls
    /\ handed' = handed \cup PoolPinsOf(step_calls)
    /\ fell_back' = (fell_back \/ \E k \in 1..Len(step_calls) : step_calls[k].fallback)
    /\ ground_log' = ground_log \o GroundPinsOf(calls)

\* the history of a freshly created allocator
FreshHistory ==
    /\ step_calls' = <<>>
    /\ handed' = {}
    /\ fell_back' = FALSE
    /\ ground_log' = <<>>

(***************************************************************************)
(* Parts and connections                                                   *)
(***************************************************************************)

\* a part dict; attrs is the set of its (key, value) items
Part(type, id, top, left, attrs) ==
    [type |-> type, id |-> id, top |-> top, left |-> left, attrs |-> attrs]

\* a part dict that has only the two required keys
BarePart(type, id) == [type |-> type, id |-> id]

\* Python d.get(key, default)
Get(d, key, default) == IF key \in DOMAIN d THEN d[key] ELSE default

NoPart == [type |-> "", id |-> ""]

\* the test of the `# Find MCU` loops
IsMcuType(type) ==
    \E x \in {"arduino", "esp32", "mega", "nano"} : Contains(x, LowerType(type))

RECURSIVE FindMcuFrom(_, _)
FindMcuFrom(ps, k) ==
    IF k > Len(ps) THEN NoPart
    ELSE IF IsMcuType(ps[k].type) THEN ps[k]
    ELSE FindMcuFrom(ps, k + 1)

\* a search that takes the first part when no part passes the test
FindMcu_first_part(ps) ==
    IF FindMcuFrom(ps, 1) = NoPart /\ ps # <<>> THEN ps[1] ELSE FindMcuFrom(ps, 1)

\* a search that keeps the last part that passes the test
FindMcu_last(ps) ==
    LET hits == {k \in 1..Len(ps) : IsMcuType(ps[k].type)}
    IN  IF hits = {} THEN NoPart ELSE ps[CHOOSE k \in hits : \A j \in hits : j <= k]

\* the `# Find MCU` loop: the first part of the list that passes the test,
\* NoPart (Python None) if none does
FindMcu(ps) == FindMcuFrom(ps, 1)

(***************************************************************************)
(* Wire router                                                             *)
(***************************************************************************)

\* a tenth rounded down instead of truncated
TenthFloored(d) == d \div 10

\* Python int(d * 0.1) for an int d: the tenth, truncated toward zero
TenthTruncated(d) == IF d >= 0 THEN d \div 10 ELSE -((-d) \div 10)

V(n) == "v" \o IntStr(n)
H(n) == "h" \o IntStr(n)

\* a router that gives every key the same route
calculate_wire_paths_one_route(m, component) ==
    LET v_offset == Max(Min(TenthTruncated(Get(component, "top", 0) - Get(m, "top", 0)), 100), -100)
    IN  [key \in {"power", "power_alt", "analog1", "analog2", "digital1", "digital2",
                  "digital_alt1", "digital_alt2"} |-> <<V(v_offset), "*">>]

\* RAGCircuitGenerator.calculate_wire_paths
calculate_wire_paths(m, component) ==
    LET mcu_top == Get(m, "top", 0)
        mcu_left == Get(m, "left", 0)
        comp_top == Get(component, "top", 0)
        comp_left == Get(component, "left", 0)
        v_offset == Max(Min(TenthTruncated(comp_top - mcu_top), 100), -100)
        h_offset == Max(Min(TenthTruncated(comp_left - mcu_left), 150), -150)
    IN  [power |-> IF v_offset # 0
                   THEN <<V(v_offset), "*", V((-v_offset) \div 3)>>
                   ELSE <<"*">>,
         power_alt |-> IF v_offset # 15
                   THEN <<V(v_offset - 15), "*", V(((-v_offset) \div 3) + 8)>>
                   ELSE <<"h5", "*", "h-5">>,
         analog1 |-> IF v_offset # 25
                   THEN <<V(v_offset - 25), H(h_offset \div 3), "*", V((-v_offset) \div 4)>>
                   ELSE <<H(h_offset \div 3), "*">>,
         analog2 |-> IF v_offset # 30
                   THEN <<V(v_offset - 30), H(h_offset \div 4), "*", V((-v_offset) \div 5)>>
                   ELSE <<H(h_offset \div 4), "*">>,
         digital1 |-> IF v_offset # 35
                   THEN <<V(v_offset - 35), H(h_offset \div 5), "*",
                          H((-h_offset) \div 10), V((-v_offset) \div 6)>>
                   ELSE <<H(h_offset \div 5), "*", H((-h_offset) \div 10)>>,
         digital2 |-> IF v_offset # 40
                   THEN <<V(v_offset - 40), H(h_offset \div 6), "*",
                          H((-h_offset) \div 12), V((-v_offset) \div 7)>>
                   ELSE <<H(h_offset \div 6), "*", H((-h_offset) \div 12)>>,
         digital_alt1 |-> IF v_offset # 45
                   THEN <<V(v_offset - 45), H(h_offset \div 7), "*", V((-v_offset) \div 8)>>
                   ELSE <<H(h_offset \div 7), "*">>,
         digital_alt2 |-> IF v_offset # 50
                   THEN <<V(v_offset - 50), H(h_offset \div 8), "*", V((-v_offset) \div 9)>>
                   ELSE <<H(h_offset \div 8), "*">>]

(***************************************************************************)
(* Component wiring rules                                                  *)
(***************************************************************************)

\* the branch of the if/elif chain of generate_with_patterns that a lowered
\* part type takes
Rule(part_type) ==
    IF Contains("ssd1306", part_type) \/ Contains("oled", part_type) THEN "oled"
    ELSE IF Contains("ili9341", part_type) \/ Contains("tft", part_type) THEN "tft"
    ELSE IF Contains("microsd", part_type) \/ Contains("sd", part_type) THEN "sd"
    ELSE IF Contains("pushbutton", part_type) \/ Contains("button", part_type) THEN "button"
    ELSE IF Contains("buzzer", part_type) \/ Contains("piezo", part_type) THEN "buzzer"
    ELSE IF Contains("led", part_type) THEN "led"
    ELSE IF Contains("resistor", part_type) THEN "resistor"
    ELSE IF Contains("dht", part_type) \/ Contains("temperature", part_type)
            \/ Contains("humidity", part_type) THEN "dht"
    ELSE IF Contains("servo", part_type) THEN "servo"
    ELSE IF Contains("ultrasonic", part_type) \/ Contains("hc-sr04", part_type)
         THEN "ultrasonic"
    ELSE IF Contains("potentiometer", part_type) \/ Contains("pot", part_type)
         THEN "potentiometer"
    ELSE "default"

\* a call order in which the default branch asks for its ground pin first
RuleCalls_default_ground_first(rule) ==
    CASE rule = "oled" -> <<"ground">>
      [] rule = "tft" -> <<"digital", "digital", "digital", "ground">>
      [] rule = "sd" -> <<"digital", "ground">>
      [] rule = "button" -> <<"digital", "ground">>
      [] rule = "buzzer" -> <<"digital", "ground">>
      [] rule = "led" -> <<"digital", "ground">>
      [] rule = "resistor" -> <<"digital", "digital">>
      [] rule = "dht" -> <<"digital", "ground">>
      [] rule = "servo" -> <<"pwm", "ground">>
      [] rule = "ultrasonic" -> <<"digital", "digital", "ground">>
      [] rule = "potentiometer" -> <<"analog", "ground">>
      [] rule = "default" -> <<"ground", "digital">>

\* a potentiometer branch that asks for a digital pin
RuleCalls_potentiometer_digital(rule) ==
    CASE rule = "oled" -> <<"ground">>
      [] rule = "tft" -> <<"digital", "digital", "digital", "ground">>
      [] rule = "sd" -> <<"digital", "ground">>
      [] rule = "button" -> <<"digital", "ground">>
      [] rule = "buzzer" -> <<"digital", "ground">>
      [] rule = "led" -> <<"digital", "ground">>
      [] rule = "resistor" -> <<"digital", "digital">>
      [] rule = "dht" -> <<"digital", "ground">>
      [] rule = "servo" -> <<"pwm", "ground">>
      [] rule = "ultrasonic" -> <<"digital", "digital", "ground">>
      [] rule = "potentiometer" -> <<"digital", "ground">>
      [] rule = "default" -> <<"digital", "ground">>

\* the allocator operations each branch calls, in the order it calls them
RuleCalls(rule) ==
    CASE rule = "oled" -> <<"ground">>
      [] rule = "tft" -> <<"digital", "digital", "digital", "ground">>
      [] rule = "sd" -> <<"digital", "ground">>
      [] rule = "button" -> <<"digital", "ground">>
      [] rule = "buzzer" -> <<"digital", "ground">>
      [] rule = "led" -> <<"digital", "ground">>
      [] rule = "resistor" -> <<"digital", "digital">>
      [] rule = "dht" -> <<"digital", "ground">>
      [] rule = "servo" -> <<"pwm", "ground">>
      [] rule = "ultrasonic" -> <<"digital", "digital", "ground">>
      [] rule = "potentiometer" -> <<"analog", "ground">>
      [] rule = "default" -> <<"digital", "ground">>

\* Python `a or b` on strings
Or(a, b) == IF a # "" THEN a ELSE b

\* a reference that names another part than the one it is built for
Ref_prefixed(part_id, pin) == "x" \o part_id \o ":" \o pin

\* f"{part_id}:{pin}"
Ref(part_id, pin) == part_id \o ":" \o pin

\* the list a branch passes to connections.extend; p are the pins its
\* allocator calls returned, in call order
RuleConnections(rule, cls, mcu_id, part_id, p, wire_paths) ==
    LET spi_pins == get_spi_pins(cls)
        W(pin, to, color, key) == <<Ref(mcu_id, pin), Ref(part_id, to), color, wire_paths[key]>>
    IN  CASE rule = "oled" ->
               <<W(p[1], "GND", "black", "power"),
                 W(Or(get_power_3v3(cls), get_power_5v(cls)), "VCC", "red", "power_alt"),
                 W(get_i2c_sda(cls), "SDA", "gold", "analog1"),
                 W(get_i2c_scl(cls), "SCL", "cyan", "analog2")>>
          [] rule = "tft" ->
               <<W(p[4], "GND", "black", "power"),
                 W(get_power_5v(cls), "VCC", "red", "power_alt"),
                 W(p[1], "CS", "violet", "digital1"),
                 W(p[2], "RESET", "purple", "digital2"),
                 W(p[3], "DC", "#8f4814", "analog1"),
                 W(spi_pins.mosi, "MOSI", "green", "analog2"),
                 W(spi_pins.miso, "MISO", "orange", "digital_alt1"),
                 W(spi_pins.sck, "SCK", "gray", "digital_alt2")>>
          [] rule = "sd" ->
               <<W(p[2], "GND", "black", "power"),
                 W(get_power_5v(cls), "VCC", "red", "power_alt"),
                 W(p[1], "CS", "blue", "digital1"),
                 W(spi_pins.mosi, "MOSI", "green", "digital2"),
                 W(spi_pins.miso, "MISO", "orange", "analog1"),
                 W(spi_pins.sck, "SCK", "gray", "analog2")>>
          [] rule = "button" ->
               <<W(p[1], "1.l", "green", "digital1"),
                 W(p[2], "2.l", "black", "power")>>
          [] rule = "buzzer" ->
               <<W(p[2], "1", "black", "power"),
                 W(p[1], "2", "purple", "digital1")>>
          [] rule = "led" ->
               <<W(p[1], "A", "red", "digital1"),
                 W(p[2], "C", "black", "power")>>
          [] rule = "resistor" ->
               <<W(p[1], "1", "yellow", "digital1"),
                 W(p[2], "2", "orange", "digital2")>>
          [] rule = "dht" ->
               <<W(p[2], "GND", "black", "power"),
                 W(get_power_5v(cls), "VCC", "red", "power_alt"),
                 W(p[1], "SDA", "blue", "digital1")>>
          [] rule = "servo" ->
               <<W(p[2], "GND", "brown", "power"),
                 W(get_power_5v(cls), "V+", "red", "power_alt"),
                 W(p[1], "PWM", "orange", "digital1")>>
          [] rule = "ultrasonic" ->
               <<W(p[3], "GND", "black", "power"),
                 W(get_power_5v(cls), "VCC", "red", "power_alt"),
                 W(p[1], "TRIG", "blue", "digital1"),
                 W(p[2], "ECHO", "green", "digital2")>>
          [] rule = "potentiometer" ->
               <<W(p[2], "GND", "black", "power"),
                 W(get_power_5v(cls), "VCC", "red", "power_alt"),
                 W(p[1], "SIG", "yellow", "analog1")>>
          [] rule = "default" ->
               <<W(p[2], "GND", "black", "power"),
                 W(p[1], "SIG", "gray", "digital1")>>

\* an iteration that appends nothing for a part of the default branch
WirePart_default_unwired(a, m, part) ==
    LET rule == Rule(LowerType(part.type))
        run == RunCalls(a, RuleCalls(rule))
    IN  [conns |-> IF rule = "default"
                   THEN <<>>
                   ELSE RuleConnections(rule, a.cls, m.id, part.id, run.pins,
                                        calculate_wire_paths(m, part)),
         alloc |-> run.alloc,
         calls |-> run.calls]

\* one iteration of `for part in parts` for a part that is not the MCU:
\* the connections it appends, the allocator afterwards, the calls it made
WirePart(a, m, part) ==
    LET rule == Rule(LowerType(part.type))
        run == RunCalls(a, RuleCalls(rule))
    IN  [conns |-> RuleConnections(rule, a.cls, m.id, part.id, run.pins,
                                   calculate_wire_paths(m, part)),
         alloc |-> run.alloc,
         calls |-> run.calls]

RECURSIVE WireAll(_, _, _, _)
\* the whole loop `for part in parts` from index k on: the MCU is skipped,
\* every other part wired with the allocator the parts before it left
WireAll(ps, m, k, acc) ==
    IF k > Len(ps) THEN acc
    ELSE IF ps[k] = m THEN WireAll(ps, m, k + 1, acc)
    ELSE LET w == WirePart(acc.alloc, m, ps[k])
         IN  WireAll(ps, m, k + 1, [alloc |-> w.alloc, conns |-> acc.conns \o w.conns])

\* the connections list of generate_with_patterns at the end of its loop, for
\* a parts list that has an MCU
wired_connections(ps) ==
    LET m == FindMcu(ps)
    IN  WireAll(ps, m, 1, [alloc |-> get_pin_allocator(m.type), conns |-> <<>>]).conns

(***************************************************************************)
(* Safety-component inserter                                               *)
(***************************************************************************)

\* Python repr of a str without quotes or backslashes in it
Repr(s) == "'" \o s \o "'"

RECURSIVE JoinRepr(_)
JoinRepr(seq) ==
    IF seq = <<>> THEN ""
    ELSE IF Len(seq) = 1 THEN Repr(seq[1])
    ELSE Repr(seq[1]) \o ", " \o JoinRepr(Tail(seq))

\* Python str(conn) of a connection [source, target, color, [path...]]
StrConn(conn) ==
    "[" \o Repr(conn[1]) \o ", " \o Repr(conn[2]) \o ", " \o Repr(conn[3])
        \o ", [" \o JoinRepr(conn[4]) \o "]]"

\* a test that finds no resistor on any LED or buzzer
has_resistor_never(part_id, ps, conns) == FALSE

\* a test that takes every LED and buzzer for protected
has_resistor_always(part_id, ps, conns) == TRUE

\* the has_resistor expression of add_automatic_resistors
has_resistor(part_id, ps, conns) ==
    \E k \in 1..Len(ps) :
        /\ Contains("resistor", LowerType(ps[k].type))
        /\ \E c \in 1..Len(conns) :
               /\ Contains(ps[k].id, StrConn(conns[c]))
               /\ Contains(part_id, StrConn(conns[c]))

RECURSIVE components_needing_resistors_same_value(_, _, _)
\* a first loop that asks for the piezo's 100 ohm for LEDs too
components_needing_resistors_same_value(k, ps, conns) ==
    IF k > Len(ps) THEN <<>>
    ELSE LET part == ps[k]
             part_type == LowerType(part.type)
             rest == components_needing_resistors_same_value(k + 1, ps, conns)
         IN  IF Contains("led", part_type) \/ Contains("piezo", part_type)
             THEN IF ~has_resistor(part.id, ps, conns)
                  THEN <<[component |-> part, value |-> "100"]>> \o rest
                  ELSE rest
             ELSE rest

RECURSIVE components_needing_resistors(_, _, _)
\* the list built by the first loop of add_automatic_resistors, for the
\* parts from index k on
components_needing_resistors(k, ps, conns) ==
    IF k > Len(ps) THEN <<>>
    ELSE LET part == ps[k]
             part_type == LowerType(part.type)
             rest == components_needing_resistors(k + 1, ps, conns)
         IN  IF Contains("led", part_type)
             THEN IF ~has_resistor(part.id, ps, conns)
                  THEN <<[component |-> part, value |-> "220"]>> \o rest
                  ELSE rest
             ELSE IF Contains("piezo", part_type)
             THEN IF ~has_resistor(part.id, ps, conns)
                  THEN <<[component |-> part, value |-> "100"]>> \o rest
                  ELSE rest
             ELSE rest

RECURSIVE updated_connections_any_pin(_, _, _)
\* an inner loop that splices the resistor into every wire of the component,
\* not only the one to the LED anode or the buzzer signal pin
updated_connections_any_pin(conns, component, resistor_id) ==
    IF conns = <<>> THEN <<>>
    ELSE LET conn == Head(conns)
             rest == updated_connections_any_pin(Tail(conns), component, resistor_id)
             through == <<<<conn[1], Ref(resistor_id, "1"), conn[3], conn[4]>>,
                          <<Ref(resistor_id, "2"), conn[2], conn[3], <<"h10", "*", "h-5">>>>>>
         IN  IF StartsWith(conn[2], component.id \o ":")
             THEN through \o rest
             ELSE <<conn>> \o rest

RECURSIVE updated_connections(_, _, _)
\* the inner loop `for conn in new_connections` for one component
updated_connections(conns, component, resistor_id) ==
    IF conns = <<>> THEN <<>>
    ELSE LET conn == Head(conns)
             rest == updated_connections(Tail(conns), component, resistor_id)
             through == <<<<conn[1], Ref(resistor_id, "1"), conn[3], conn[4]>>,
                          <<Ref(resistor_id, "2"), conn[2], conn[3], <<"h10", "*", "h-5">>>>>>
         IN  IF StartsWith(conn[2], component.id \o ":")
             THEN IF Contains("led", LowerType(component.type)) /\ EndsWith(conn[2], ":A")
                  THEN through \o rest
                  ELSE IF Contains("piezo", LowerType(component.type)) /\ EndsWith(conn[2], ":2")
                  THEN through \o rest
                  ELSE <<conn>> \o rest
             ELSE <<conn>> \o rest

RECURSIVE insert_resistors(_, _, _, _, _)
\* the second loop of add_automatic_resistors from item k on, with
\* resistor_counter = counter
insert_resistors(k, items, ps, acc, counter) ==
    IF k > Len(items) THEN acc
    ELSE LET component == items[k].component
             resistor_id == "R" \o IntStr(counter)
             resistor_part == Part("wokwi-resistor", resistor_id,
                                   Get(component, "top", 0) + 30,
                                   Get(component, "left", 0) - 50,
                                   {<<"value", items[k].value>>})
             m == FindMcu(ps)
             new_connections == IF m # NoPart
                                THEN updated_connections(acc.connections, component, resistor_id)
                                ELSE acc.connections
         IN  insert_resistors(k + 1, items, ps,
                              [parts |-> Append(acc.parts, resistor_part),
                               connections |-> new_connections],
                              counter + 1)

\* an inserter that puts the resistors in front of the input parts
add_automatic_resistors_resistors_first(ps, conns) ==
    LET r == insert_resistors(1, components_needing_resistors(1, ps, conns), ps,
                              [parts |-> ps, connections |-> conns], 1)
    IN  [parts |-> SubSeq(r.parts, Len(ps) + 1, Len(r.parts)) \o ps,
         connections |-> r.connections]

\* an inserter that loses the last connection of the list
add_automatic_resistors_drop_last(ps, conns) ==
    LET r == insert_resistors(1, components_needing_resistors(1, ps, conns), ps,
                              [parts |-> ps, connections |-> conns], 1)
    IN  [parts |-> r.parts,
         connections |-> IF r.connections = <<>> THEN <<>>
                         ELSE SubSeq(r.connections, 1, Len(r.connections) - 1)]

\* RAGCircuitGenerator.add_automatic_resistors
add_automatic_resistors(ps, conns) ==
    insert_resistors(1, components_needing_resistors(1, ps, conns), ps,
                     [parts |-> ps, connections |-> conns], 1)

(***************************************************************************)
(* Diagram assembler                                                       *)
(***************************************************************************)

\* RAGCircuitGenerator.finalize_diagram; the dict that json.dumps writes
finalize_diagram(ps, conns) ==
    [version |-> 1,
     author |-> "RAG AI Generator",
     editor |-> "wokwi",
     parts |-> ps,
     connections |-> conns,
     dependencies |-> {}]

\* the document of the `if not mcu` return
NoMcuDocument == [error |-> "No MCU found"]

NoDocument == [none |-> TRUE]

(***************************************************************************)
(* Generator construction and oracles                                      *)
(***************************************************************************)

\* the name RAGCircuitGenerator.__init__ passes to os.getenv: the literal of
\* src/main.py:27, which is not the name GEMINI_API_KEY (abridged here)
KeyVariable == "AIzaSy-literal-of-main-py-27"

EmptyEnviron == [n \in {} |-> ""]

RECURSIVE LStrip(_)
LStrip(s) ==
    IF Len(s) > 0 /\ SubSeq(s, 1, 1) = " " THEN LStrip(SubSeq(s, 2, Len(s))) ELSE s

RECURSIVE RStrip(_)
RStrip(s) ==
    IF Len(s) > 0 /\ SubSeq(s, Len(s), Len(s)) = " "
    THEN RStrip(SubSeq(s, 1, Len(s) - 1))
    ELSE s

\* str.strip() on a line whose only whitespace is blanks
Strip(s) == RStrip(LStrip(s))

\* position of the first "=" of a line that has one
EqualsAt(s) ==
    CHOOSE k \in 1..Len(s) :
        SubSeq(s, k, k) = "=" /\ \A j \in 1..(k - 1) : SubSeq(s, j, j) # "="

\* os.environ[key] = value
SetVar(env, key, value) ==
    [n \in DOMAIN env \cup {key} |-> IF n = key THEN value ELSE env[n]]

RECURSIVE load_env_file(_, _)
\* RAGCircuitGenerator.load_env_file on the lines of the .env file (no lines
\* if there is no file): blank lines, comments and lines without "=" are
\* skipped, every other line sets a variable
load_env_file(env, lines) ==
    IF lines = <<>> THEN env
    ELSE LET line == Strip(Head(lines))
         IN  IF line # "" /\ ~StartsWith(line, "#") /\ Contains("=", line)
             THEN load_env_file(
                      SetVar(env, Strip(SubSeq(line, 1, EqualsAt(line) - 1)),
                             Strip(SubSeq(line, EqualsAt(line) + 1, Len(line)))),
                      Tail(lines))
             ELSE load_env_file(env, Tail(lines))

\* os.getenv(name): <<>> for None
getenv(env, name) == IF name \in DOMAIN env THEN <<env[name]>> ELSE <<>>

\* Python truth value of an Optional[str]
Truthy(opt) == opt # <<>> /\ opt[1] # ""

\* generate_with_patterns as a function of the parts list
generate_with_patterns(ps) ==
    IF FindMcu(ps) = NoPart THEN NoMcuDocument
    ELSE LET final == add_automatic_resistors(ps, wired_connections(ps))
         IN  finalize_diagram(final.parts, final.connections)

\* the ways the text of model_trainer.generate_response can fail to hold a
\* JSON object: it has no braces, or braces that json.loads rejects
\* (generate_response catches its own exceptions and always returns text)
ModelFailures == {"no_braces", "bad_json"}

\* the ways the request of gemini_double_check can fail to give a JSON object
GeminiFailures ==
    {"timeout", "request_exception", "exception", "status", "no_candidates",
     "no_braces", "bad_json"}

Answer(kind, doc) == [kind |-> kind, doc |-> doc]

Diagram(author, ps, conns) ==
    [version |-> 1, author |-> author, editor |-> "wokwi", parts |-> ps,
     connections |-> conns, dependencies |-> {}]

\* what the model can answer for a parts list: a failure, or a JSON object
\* that is a diagram, has no connections, or has neither parts nor connections
ModelAnswers(ps) ==
    {Answer(k, NoDocument) : k \in ModelFailures}
    \cup {Answer("json", d) :
            d \in {Diagram("Code Llama Circuit Generator", ps, <<>>),
                   [parts |-> ps], [note |-> "no diagram"]}}

\* what Gemini can answer for an initial document and a parts list: a
\* failure, or a JSON object with the parts of the initial document, with the
\* input parts, with one part more or one part less than the input, without
\* parts, without connections, with neither
GeminiAnswers(initial, ps) ==
    LET conns == IF "connections" \in DOMAIN initial THEN initial.connections ELSE <<>>
        lists == {ps, Append(ps, BarePart("wokwi-resistor", "extra")),
                  IF ps = <<>> THEN ps ELSE SubSeq(ps, 1, Len(ps) - 1)}
                 \cup (IF "parts" \in DOMAIN initial THEN {initial.parts} ELSE {})
    IN  {Answer(k, NoDocument) : k \in GeminiFailures}
        \cup {Answer("json", Diagram("Gemini Enhanced Circuit Generator", l, conns)) :
                l \in lists}
        \cup {Answer("json", d) :
                d \in {[connections |-> conns], [parts |-> ps], [note |-> "no diagram"]}}

\* RAGCircuitGenerator.gemini_double_check with the answer the request gets;
\* NoDocument for None
gemini_double_check(initial, ps, answer) ==
    IF ~Truthy(gemini_api_key) THEN NoDocument
    ELSE IF answer.kind # "json" THEN NoDocument
    ELSE IF /\ "parts" \in DOMAIN answer.doc
            /\ "connections" \in DOMAIN answer.doc
            /\ Len(answer.doc.parts) = Len(ps)
         THEN answer.doc
         ELSE NoDocument

(***************************************************************************)
(* Inputs                                                                  *)
(***************************************************************************)

MaxParts == 3        \* longest parts list of Spec
MaxDeepParts == 5    \* most peripherals behind the MCU in SpecDeep
MaxSessionParts == 2 \* most peripherals behind the MCU in SpecSession
MaxGroundCalls == 9  \* most get_ground calls on one allocator used on its own
MaxGroundParts == 5  \* most peripherals behind the MCU in SpecGround
MaxInserterParts == 3 \* most peripherals behind the MCU in SpecInserter

MaxIdParts == 3       \* most peripherals behind the MCU in SpecIds
MaxInlineParts == 3   \* most peripherals behind the MCU in SpecInline
MaxRuleParts == 2     \* most peripherals behind the MCU in SpecRules
MaxTopSteps == 215    \* SpecRouter: tops from -5 * MaxTopSteps to 5 * MaxTopSteps
MaxRouteSteps == 22   \* SpecRoutes: tops from -50 * MaxRouteSteps to 50 * MaxRouteSteps
MaxLeftSteps == 6     \* SpecRouter: lefts from -255 * MaxLeftSteps to 255 * MaxLeftSteps
MaxHubParts == 3      \* longest parts list of SpecHubs

\* canvas position of the k-th part of an input list
PlaceTop(k) == (((k - 1) * 130) % 500) - 150
PlaceLeft(k) == (((k - 1) * 210) % 800) - 300

\* the parts list a caller builds from a list of part types
PartsOf(types) ==
    [k \in 1..Len(types) |->
        Part(types[k], "p" \o IntStr(k), PlaceTop(k), PlaceLeft(k), {})]

SeqsUpTo(S, n) == UNION {[1..k -> S] : k \in 0..n}

\* the parts list of the LED scenario: ids "mcu" and "led1", no positions
LedExample == <<BarePart("wokwi-arduino-uno", "mcu"), BarePart("wokwi-led", "led1")>>

ExampleInputs == {LedExample}

Inputs == {PartsOf(t) : t \in SeqsUpTo(Catalog, MaxParts)} \cup ExampleInputs

DeepInputs ==
    {PartsOf(<<m>> \o t) :
        m \in {"wokwi-arduino-uno", "wokwi-arduino-mega"},
        t \in SeqsUpTo(DeepTypes, MaxDeepParts)}

\* lists for the ground cycle: parts that ask for ground (one of them gets a
\* resistor inserted) and the one kind that does not
GroundTypes == {"wokwi-pushbutton", "wokwi-led", "wokwi-resistor"}

GroundInputs ==
    {PartsOf(<<m>> \o t) :
        m \in {"wokwi-arduino-uno", "wokwi-arduino-mega"},
        t \in SeqsUpTo(GroundTypes, MaxGroundParts)}

\* a wire without routing
Wire(from, to, color) == <<from, to, color, <<"*">>>>

\* diagrams a caller wired by hand, with the resistor p3 in front of the
\* anode of the LED p2: resistor -> anode, anode -> resistor, and with a
\* second LED p4 that has no resistor
HandWired ==
    {[parts |-> PartsOf(<<"wokwi-arduino-uno", "wokwi-led", "wokwi-resistor">>),
      connections |-> <<Wire("p1:2", "p3:1", "red"), Wire("p3:2", "p2:A", "red"),
                        Wire("p1:GND.1", "p2:C", "black")>>],
     [parts |-> PartsOf(<<"wokwi-arduino-uno", "wokwi-led", "wokwi-resistor">>),
      connections |-> <<Wire("p1:2", "p3:1", "red"), Wire("p2:A", "p3:2", "red"),
                        Wire("p1:GND.1", "p2:C", "black")>>],
     [parts |-> PartsOf(<<"wokwi-arduino-uno", "wokwi-led", "wokwi-resistor", "wokwi-led">>),
      connections |-> <<Wire("p1:2", "p3:1", "red"), Wire("p3:2", "p2:A", "red"),
                        Wire("p1:GND.1", "p2:C", "black"), Wire("p1:3", "p4:A", "red"),
                        Wire("p1:GND.2", "p4:C", "black")>>]}

\* the arguments add_automatic_resistors is called with: the parts and the
\* loop's connections of a synthesis call, or a diagram wired by hand
InserterInputs ==
    {[parts |-> PartsOf(<<"wokwi-arduino-uno">> \o t),
      connections |-> wired_connections(PartsOf(<<"wokwi-arduino-uno">> \o t))] :
        t \in SeqsUpTo(InserterTypes, MaxInserterParts)}
    \cup {[parts |-> LedExample, connections |-> wired_connections(LedExample)]}
    \cup HandWired

\* lists with the parts the inserter protects, behind an Uno or an ESP32
ProtectInputs ==
    {PartsOf(<<m>> \o t) :
        m \in {"wokwi-arduino-uno", "wokwi-esp32-devkit-v1"},
        t \in SeqsUpTo(InserterTypes, MaxInserterParts)}
    \cup ExampleInputs

\* the MCU argument of SpecRouter: without position, and placed
RouterMcus ==
    {BarePart("wokwi-arduino-uno", "mcu"),
     Part("wokwi-arduino-uno", "mcu", PlaceTop(1), PlaceLeft(1), {})}

RouterTops == {5 * k : k \in (-MaxTopSteps)..MaxTopSteps} \cup {-100000, 100000}

RouterLefts == {255 * k : k \in (-MaxLeftSteps)..MaxLeftSteps} \cup {-100000, -7, 7, 100000}

\* the component argument of SpecRouter: without position, and on a grid
\* that reaches past both clamps in both directions
RouterComponents ==
    {BarePart("wokwi-led", "led1")}
    \cup {Part("wokwi-led", "led1", t, l, {}) : t \in RouterTops, l \in RouterLefts}

\* the lists of SpecRoutes: an MCU and one part of any category, on a grid
\* of positions that gives every vertical offset 0, 5, 10, ..., 100 and its
\* negative, and horizontal offsets inside and on both clamps
RouteInputs ==
    {<<m, Part(t, "p2", 50 * k, l, {})>> :
        m \in RouterMcus, t \in PeripheralTypes,
        k \in (-MaxRouteSteps)..MaxRouteSteps, l \in {-1600, -300, 0, 7, 500, 1600}}

\* types with 'led' or 'piezo' in them: the two the inserter is written for,
\* and a display type that the OLED branch takes for its 'oled'
InlineTypes ==
    {"wokwi-led", "wokwi-piezo-buzzer", "ssd1306-oled", "board-ssd1306", "wokwi-pushbutton"}

\* the lists of SpecInline
InlineInputs ==
    {PartsOf(<<"wokwi-arduino-uno">> \o t) : t \in SeqsUpTo(InlineTypes, MaxInlineParts)}

\* the lists of SpecRules: every category behind an Uno, an ESP32 or a Mega
\* with unused pins, and every category behind an Uno whose twelve digital
\* pins four TFT displays have taken
RuleInputs ==
    {PartsOf(<<m>> \o t) :
        m \in {"wokwi-arduino-uno", "wokwi-ESP32-devkit-v1", "wokwi-arduino-mega"},
        t \in SeqsUpTo(PeripheralTypes, MaxRuleParts)}
    \cup {PartsOf(<<"wokwi-arduino-uno", "board-ili9341-cap-touch",
                    "board-ili9341-cap-touch", "board-ili9341-cap-touch",
                    "board-ili9341-cap-touch">> \o t) :
            t \in SeqsUpTo(PeripheralTypes, MaxRuleParts - 1)}

\* a parts list whose MCU has the id "mcu" and whose k-th peripheral has the
\* id prefix k
NamedParts(types, prefix) ==
    [k \in 1..Len(types) |->
        BarePart(types[k], IF k = 1 THEN "mcu" ELSE prefix \o IntStr(k - 1))]

\* ids a caller may give: p1, p2, ...; R1, R2, ...; led1, led2, ...
IdPrefixes == {"p", "R", "led"}

IdTypes == {"wokwi-led", "wokwi-pushbutton", "wokwi-piezo-buzzer", "wokwi-resistor"}

\* the lists of SpecIds: an Uno and peripherals with pairwise distinct ids
\* Test 1 of test_wiring.py (an Uno, an LED, a resistor), and the same list
\* with the resistor named after the LED it is meant for
WiringTest1 ==
    <<BarePart("wokwi-arduino-uno", "uno"), BarePart("wokwi-led", "led1"),
      BarePart("wokwi-resistor", "r1")>>

ResistorNamedAfterLed ==
    <<BarePart("wokwi-arduino-uno", "uno"), BarePart("wokwi-led", "led1"),
      BarePart("wokwi-resistor", "led1_r")>>

IdInputs ==
    {NamedParts(<<"wokwi-arduino-uno">> \o t, prefix) :
        t \in SeqsUpTo(IdTypes, MaxIdParts), prefix \in IdPrefixes}
        \cup {WiringTest1, ResistorNamedAfterLed}

\* the part types of SpecHubs: the four boards, a type that names two
\* families, a board type that names no family, and two peripherals
HubTypes ==
    McuTypes \cup {"arduino-nano-esp32", "wokwi-arduino-leonardo",
                   "wokwi-led", "wokwi-pushbutton"}

HubInputs == {PartsOf(t) : t \in SeqsUpTo(HubTypes, MaxHubParts)}

\* the lists of SpecOracle: the LED scenario, a list without resistor to
\* insert, a list with two, a list without MCU
OracleInputs ==
    {LedExample,
     PartsOf(<<"wokwi-arduino-uno", "wokwi-pushbutton">>),
     PartsOf(<<"wokwi-esp32-devkit-v1", "wokwi-led", "wokwi-piezo-buzzer">>),
     PartsOf(<<"wokwi-led">>)}

\* the process environment before the generator is constructed
Environs ==
    {EmptyEnviron,
     [n \in {"GEMINI_API_KEY"} |-> "key-of-env"],
     [n \in {KeyVariable} |-> "value-of-env"]}

\* the lines of the .env file next to main.py, none if there is no file
EnvFiles ==
    {<<>>,
     <<"# Gemini", "", "GEMINI_API_KEY = key-of-file">>,
     <<KeyVariable \o "=value-of-file", "NOT A SETTING">>}

SessionInputs ==
    {PartsOf(<<m>> \o t) :
        m \in {"wokwi-arduino-uno", "wokwi-esp32-devkit-v1"},
        t \in SeqsUpTo(SessionTypes, MaxSessionParts)}

(***************************************************************************)
(* Actions                                                                 *)
(***************************************************************************)

NoCall == [parts |-> <<>>, document |-> [none |-> TRUE], between |-> FALSE, none |-> TRUE]

\* no oracle has answered
NoAnswers ==
    [model |-> "", model_doc |-> NoDocument, gemini |-> "", gemini_doc |-> NoDocument,
     posted |-> FALSE]

\* calculate_wire_paths has not been called on its own
NoPaths == [none |-> TRUE]

\* a generator constructed with an empty environment and no .env file, whose
\* model did not load: no API key, no model
NoOracles ==
    /\ environ = EmptyEnviron
    /\ gemini_api_key = <<>>
    /\ model_trainer = "none"
    /\ oracle = NoAnswers
    /\ result = NoDocument
    /\ paths = NoPaths

\* no synthesis call has been made on the generator
Init ==
    /\ pin_allocator = NoAllocator
    /\ step_calls = <<>>
    /\ handed = {}
    /\ fell_back = FALSE
    /\ ground_log = <<>>
    /\ pc = "idle"
    /\ parts = <<>>
    /\ mcu = NoPart
    /\ part_idx = 0
    /\ connections = <<>>
    /\ document = NoDocument
    /\ remembered = NoCall
    /\ NoOracles

\* an allocator of some family has been constructed and is used on its own
InitAlloc ==
    /\ pin_allocator \in {get_pin_allocator(t) : t \in McuTypes}
    /\ step_calls = <<>>
    /\ handed = {}
    /\ fell_back = FALSE
    /\ ground_log = <<>>
    /\ pc = "alloc"
    /\ parts = <<>>
    /\ mcu = NoPart
    /\ part_idx = 0
    /\ connections = <<>>
    /\ document = NoDocument
    /\ remembered = NoCall
    /\ NoOracles

\* one operation called on the allocator
Use(op) ==
    /\ pc = "alloc"
    /\ \E run \in {RunCalls(pin_allocator, <<op>>)} :
           /\ pin_allocator' = run.alloc
           /\ Record(run.calls)
    /\ UNCHANGED <<callVars, remembered, genVars>>

NextDigital == Use("digital")

NextAnalog == Use("analog")

NextPwm == Use("pwm")

Ground ==
    /\ pc = "alloc"
    /\ pin_allocator.ground_pin_idx < MaxGroundCalls
    /\ Use("ground")

\* generate_with_patterns is entered with the parts list ps: the MCU search,
\* the early return without an MCU, the locals before the loop
Enter(ps) ==
    /\ \E m \in {FindMcu(ps)} :
            /\ parts' = ps
            /\ mcu' = m
            /\ part_idx' = 0
            /\ connections' = <<>>
            /\ IF m = NoPart
               THEN /\ pc' = "done"
                    /\ document' = NoMcuDocument
                    /\ pin_allocator' = NoAllocator
               ELSE /\ pc' = "wiring"
                    /\ document' = NoDocument
                    /\ pin_allocator' = get_pin_allocator(m.type)
            /\ remembered' = IF remembered = NoCall \/ remembered.parts = ps
                             THEN remembered
                             ELSE [remembered EXCEPT !.between = TRUE]
    /\ FreshHistory

\* generate_with_patterns called on a generator that has no oracle
Call(inputs, from) ==
    /\ pc \in from
    /\ \E ps \in inputs : Enter(ps)
    /\ UNCHANGED genVars

\* one iteration of `for part in parts`
WireStep ==
    /\ pc = "wiring"
    /\ part_idx < Len(parts)
    /\ LET part == parts[part_idx + 1]
       IN  IF part = mcu
           THEN /\ Record(<<>>)
                /\ UNCHANGED <<pin_allocator, connections>>
           ELSE \E w \in {WirePart(pin_allocator, mcu, part)} :
                    /\ connections' = connections \o w.conns
                    /\ pin_allocator' = w.alloc
                    /\ Record(w.calls)
    /\ part_idx' = part_idx + 1
    /\ UNCHANGED <<pc, parts, mcu, document, remembered, genVars>>

\* the end of generate_with_patterns: add_automatic_resistors, then
\* finalize_diagram, then the return
Return ==
    /\ pc = "wiring"
    /\ part_idx = Len(parts)
    /\ \E final \in {add_automatic_resistors(parts, connections)} :
           document' = finalize_diagram(final.parts, final.connections)
    /\ pc' = "done"
    /\ UNCHANGED <<allocVars, parts, mcu, part_idx, connections, genVars>>

Finish == Return /\ UNCHANGED remembered

\* the same return, the caller keeping the input and the document of this call
FinishRemember ==
    /\ remembered = NoCall
    /\ Return
    /\ remembered' = [parts |-> parts, document |-> document', between |-> FALSE,
                      none |-> FALSE]

\* calculate_wire_paths is about to be called on its own
InitRouter ==
    /\ pin_allocator = NoAllocator
    /\ step_calls = <<>>
    /\ handed = {}
    /\ fell_back = FALSE
    /\ ground_log = <<>>
    /\ pc = "router"
    /\ mcu \in RouterMcus
    /\ \E component \in RouterComponents : parts = <<component>>
    /\ part_idx = 0
    /\ connections = <<>>
    /\ document = NoDocument
    /\ remembered = NoCall
    /\ NoOracles

\* calculate_wire_paths(mcu, component)
Route ==
    /\ \/ pc = "router"
       \/ pc = "done" /\ mcu # NoPart /\ Len(parts) = 2
    /\ paths' = calculate_wire_paths(mcu, parts[Len(parts)])
    /\ pc' = "routed"
    /\ UNCHANGED <<allocVars, parts, mcu, part_idx, connections, document, remembered,
                   environ, gemini_api_key, model_trainer, oracle, result>>

\* add_automatic_resistors is about to be called on its own
InitInserter ==
    /\ \E in \in InserterInputs :
           /\ parts = in.parts
           /\ connections = in.connections
           /\ mcu = FindMcu(in.parts)
    /\ pc = "inserter"
    /\ part_idx = 0
    /\ document = NoDocument
    /\ pin_allocator = NoAllocator
    /\ step_calls = <<>>
    /\ handed = {}
    /\ fell_back = FALSE
    /\ ground_log = <<>>
    /\ remembered = NoCall
    /\ NoOracles

\* add_automatic_resistors(parts, connections), the result kept as a diagram
Insert ==
    /\ pc = "inserter"
    /\ \E final \in {add_automatic_resistors(parts, connections)} :
           document' = finalize_diagram(final.parts, final.connections)
    /\ pc' = "inserted"
    /\ UNCHANGED <<allocVars, parts, mcu, part_idx, connections, remembered, genVars>>

\* add_automatic_resistors called on the parts and connections it returned
InsertAgain ==
    /\ pc = "inserted"
    /\ parts' = document.parts
    /\ connections' = document.connections
    /\ \E final \in {add_automatic_resistors(document.parts, document.connections)} :
           document' = finalize_diagram(final.parts, final.connections)
    /\ pc' = "inserted_again"
    /\ UNCHANGED <<allocVars, mcu, part_idx, remembered, genVars>>

\* RAGCircuitGenerator() has been constructed: load_env_file, then the key
\* from os.getenv, then load_rag_model, which leaves a model or none
InitOracle ==
    /\ \E env \in Environs, lines \in EnvFiles :
           /\ environ = load_env_file(env, lines)
           /\ gemini_api_key = getenv(load_env_file(env, lines), KeyVariable)
    /\ model_trainer \in {"none", "loaded"}
    /\ oracle = NoAnswers
    /\ result = NoDocument
    /\ paths = NoPaths
    /\ pin_allocator = NoAllocator
    /\ step_calls = <<>>
    /\ handed = {}
    /\ fell_back = FALSE
    /\ ground_log = <<>>
    /\ pc = "idle"
    /\ parts = <<>>
    /\ mcu = NoPart
    /\ part_idx = 0
    /\ connections = <<>>
    /\ document = NoDocument
    /\ remembered = NoCall

\* generate_diagram with a model that answers a JSON object: the object is
\* returned, or what gemini_double_check made of it
ModelReturns ==
    /\ pc = "idle"
    /\ model_trainer = "loaded"
    /\ \E ps \in OracleInputs : \E a \in ModelAnswers(ps) :
           /\ a.kind = "json"
           /\ parts' = ps
           /\ IF Truthy(gemini_api_key)
              THEN \E g \in GeminiAnswers(a.doc, ps) :
                       \E enhanced \in {gemini_double_check(a.doc, ps, g)} :
                           /\ result' = IF enhanced # NoDocument THEN enhanced ELSE a.doc
                           /\ oracle' = [model |-> "json", model_doc |-> a.doc,
                                         gemini |-> g.kind, gemini_doc |-> g.doc,
                                         posted |-> TRUE]
              ELSE /\ result' = a.doc
                   /\ oracle' = [NoAnswers EXCEPT !.model = "json", !.model_doc = a.doc]
    /\ pc' = "returned"
    /\ UNCHANGED <<allocVars, mcu, part_idx, connections, document, remembered,
                   environ, gemini_api_key, model_trainer, paths>>

\* generate_diagram reaches `pattern_result = self.generate_with_patterns(parts)`:
\* there is no model, or its answer had no braces or was rejected by json.loads
EnterPatterns ==
    /\ pc = "idle"
    /\ \E ps \in OracleInputs :
           /\ Enter(ps)
           /\ IF model_trainer = "loaded"
              THEN \E k \in ModelFailures :
                       oracle' = [NoAnswers EXCEPT !.model = k]
              ELSE oracle' = NoAnswers
    /\ UNCHANGED <<environ, gemini_api_key, model_trainer, result, paths>>

\* the end of generate_diagram after generate_with_patterns has returned: the
\* double check if there is a key, and the return
ReturnDiagram ==
    /\ pc = "done"
    /\ IF Truthy(gemini_api_key)
       THEN \E g \in GeminiAnswers(document, parts) :
                \E enhanced \in {gemini_double_check(document, parts, g)} :
                    /\ result' = IF enhanced # NoDocument THEN enhanced ELSE document
                    /\ oracle' = [oracle EXCEPT !.gemini = g.kind, !.gemini_doc = g.doc,
                                                !.posted = TRUE]
       ELSE /\ result' = document
            /\ UNCHANGED oracle
    /\ pc' = "returned"
    /\ UNCHANGED <<allocVars, parts, mcu, part_idx, connections, document, remembered,
                   environ, gemini_api_key, model_trainer, paths>>

\* one synthesis call on a new generator, as generate_circuit_diagram_json makes
Next == Call(Inputs, {"idle"}) \/ WireStep \/ Finish

Spec == Init /\ [][Next]_vars

\* the pool operations of an allocator used on its own, in any order
NextAlloc == NextDigital \/ NextAnalog \/ NextPwm

SpecAlloc == InitAlloc /\ [][NextAlloc]_vars

\* one synthesis call with the MCU first and up to MaxDeepParts peripherals
NextDeep == Call(DeepInputs, {"idle"}) \/ WireStep \/ Finish

SpecDeep == Init /\ [][NextDeep]_vars

\* get_ground called on an allocator used on its own, or one synthesis call
NextGround == Ground \/ Call(GroundInputs, {"idle"}) \/ WireStep \/ Finish

SpecGround == (Init \/ InitAlloc) /\ [][NextGround]_vars

\* the pool operations of an allocator used on its own, or one synthesis call
NextExhaust == NextAlloc \/ NextDeep

SpecExhaust == (Init \/ InitAlloc) /\ [][NextExhaust]_vars

\* any number of synthesis calls on one generator object
NextSession == Call(SessionInputs, {"idle", "done"}) \/ WireStep \/ Finish \/ FinishRemember

SpecSession == Init /\ [][NextSession]_vars

\* one synthesis call on a list of LEDs, piezo buzzers, resistors and buttons
NextProtect == Call(ProtectInputs, {"idle"}) \/ WireStep \/ Finish

SpecProtect == Init /\ [][NextProtect]_vars

\* the wire router called on its own
SpecRouter == InitRouter /\ [][Route]_vars

\* one synthesis call on an MCU and a part, then the wire router called on
\* its own for the same two parts
NextRoutes == Call(RouteInputs, {"idle"}) \/ WireStep \/ Finish \/ Route

SpecRoutes == Init /\ [][NextRoutes]_vars

\* one synthesis call on a list of LEDs, buzzers and displays
NextInline == Call(InlineInputs, {"idle"}) \/ WireStep \/ Finish

SpecInline == Init /\ [][NextInline]_vars

\* one synthesis call on a list that takes every branch of the rule chain
NextHubs == Call(HubInputs, {"idle"}) \/ WireStep \/ Finish

SpecHubs == Init /\ [][NextHubs]_vars

NextRules == Call(RuleInputs, {"idle"}) \/ WireStep \/ Finish

SpecRules == Init /\ [][NextRules]_vars

\* one synthesis call on a parts list with ids of the caller's choice
NextIds == Call(IdInputs, {"idle"}) \/ WireStep \/ Finish

SpecIds == Init /\ [][NextIds]_vars

\* one generate_diagram call on a generator with or without oracles
NextOracle ==
    ModelReturns \/ EnterPatterns \/ WireStep \/ Finish \/ ReturnDiagram

SpecOracle == InitOracle /\ [][NextOracle]_vars

\* the safety-component inserter called on its own, once and a second time
NextInserter == Insert \/ InsertAgain

SpecInserter == InitInserter /\ [][NextInserter]_vars

(***************************************************************************)
(* Properties                                                              *)
(***************************************************************************)

PoolCalls(calls) == {k \in 1..Len(calls) : calls[k].op \in PoolOps}

NoFallbackSoFar == ~fell_back /\ \A k \in 1..Len(step_calls) : ~step_calls[k].fallback

\* C1: as long as no call of next_digital, next_analog or next_pwm has returned
\* a fallback, no pin value is returned by two different calls on one
\* allocator, whatever the order of the calls and across the three pools.
C1_NoPinReturnedTwice ==
    NoFallbackSoFar =>
        \A k \in PoolCalls(step_calls) :
            /\ step_calls[k].pin \notin handed
            /\ \A j \in PoolCalls(step_calls) : j # k => step_calls[j].pin # step_calls[k].pin

\* C1 witness: on an Uno, next_pwm has handed out "3" and next_digital "2",
\* and a further next_digital skips pin 3 and returns "4".
C1_Witness ==
    /\ pc = "alloc"
    /\ pin_allocator.cls = Uno
    /\ handed = {"2", "3"}
    /\ Len(step_calls) = 1
    /\ step_calls[1].op = "digital"
    /\ step_calls[1].pin = "4"
    /\ step_calls[1].digital_before = 1
    /\ step_calls[1].digital_after = 3
    /\ ~step_calls[1].fallback

\* the fixed bus pins of a family
BusPins(cls) ==
    {get_i2c_sda(cls), get_i2c_scl(cls), get_spi_pins(cls).mosi,
     get_spi_pins(cls).miso, get_spi_pins(cls).sck}

\* C3: no call of next_digital, next_analog or next_pwm ever returns one of the
\* fixed I2C or SPI bus pins of the allocator's family.
C3_BusPinsNeverAllocated ==
    pc = "alloc" =>
        \A k \in PoolCalls(step_calls) : step_calls[k].pin \notin BusPins(pin_allocator.cls)

\* the type list of a parts list
TypesOf(ps) == [k \in 1..Len(ps) |-> ps[k].type]

GroundPinSet(cls) == {get_ground_pins(cls)[k] : k \in 1..Len(get_ground_pins(cls))}

PowerRails(cls) == {get_power_5v(cls), get_power_3v3(cls)}

\* the bus pin of a family for the peripheral pin name `role`, "" if none
BusPinOfRole(cls, role) ==
    CASE role = "SDA" -> get_i2c_sda(cls)
      [] role = "SCL" -> get_i2c_scl(cls)
      [] role = "MOSI" -> get_spi_pins(cls).mosi
      [] role = "MISO" -> get_spi_pins(cls).miso
      [] role = "SCK" -> get_spi_pins(cls).sck
      [] OTHER -> ""

\* two connections may leave the same MCU pin: a ground pin, a power rail, or
\* a bus pin that both use in the same bus role
MayShare(cls, ci, cj) ==
    LET pin == PinOfRef(ci[1])
    IN  \/ pin \in GroundPinSet(cls)
        \/ pin \in PowerRails(cls)
        \/ /\ PinOfRef(ci[2]) = PinOfRef(cj[2])
           /\ BusPinOfRole(cls, PinOfRef(ci[2])) = pin

\* C2: in the connection list of a synthesis call in which no pool was
\* exhausted, no MCU pin is the source of two connections, except ground pins,
\* power rails and bus pins shared in the same bus role.
C2_NoMcuPinDrivesTwo ==
    (pc = "done" /\ mcu # NoPart /\ NoFallbackSoFar) =>
        \A i, j \in 1..Len(document.connections) :
            LET ci == document.connections[i]
                cj == document.connections[j]
            IN  (i < j /\ PartOfRef(ci[1]) = mcu.id /\ ci[1] = cj[1])
                    => MayShare(pin_allocator.cls, ci, cj)

\* the parts among the first n of the list that the loop wires with a
\* get_ground call: all but the MCU and the parts of the resistor rule
GroundUsers(n) ==
    {k \in 1..n : parts[k] # mcu /\ Rule(LowerType(parts[k].type)) # "resistor"}

\* the connections so far that run from an MCU ground pin to part q
GroundWires(q) ==
    {c \in 1..Len(connections) :
        /\ PartOfRef(connections[c][2]) = q.id
        /\ PartOfRef(connections[c][1]) = mcu.id
        /\ PinOfRef(connections[c][1]) \in GroundPinSet(pin_allocator.cls)}

\* C4: get_ground cycles round-robin over the k ground pins of the family: the
\* i-th and the (i+k)-th call return the same pin, k consecutive calls return
\* k different pins, the first k in list order from GND.1; in a synthesis call
\* the n-th part that asks for ground gets the n-th pin of that cycle (with an
\* Uno the 4th push button gets GND.1 again) and parts of the resistor rule
\* do not advance the cycle.
C4_GroundRoundRobin ==
    pin_allocator # NoAllocator =>
        LET cls == pin_allocator.cls
            k == Len(get_ground_pins(cls))
            n == Len(ground_log)
        IN  /\ pin_allocator.ground_pin_idx = n
            /\ \A i \in 1..n : i + k <= n => ground_log[i] = ground_log[i + k]
            /\ \A i \in 1..n : i <= k => ground_log[i] = "GND." \o IntStr(i)
            /\ \A i \in 1..n :
                   i + k - 1 <= n => Cardinality({ground_log[j] : j \in i..(i + k - 1)}) = k
            /\ pc \in {"wiring", "done"} =>
                   /\ n = Cardinality(GroundUsers(part_idx))
                   /\ \A u \in GroundUsers(part_idx) :
                          \E c \in GroundWires(parts[u]) :
                              /\ GroundWires(parts[u]) = {c}
                              /\ PinOfRef(connections[c][1])
                                     = ground_log[Cardinality(GroundUsers(u))]
                   /\ \A u \in 1..part_idx :
                          u \notin GroundUsers(u) => GroundWires(parts[u]) = {}
            /\ (/\ pc = "done"
                /\ TypesOf(parts) = <<"wokwi-arduino-uno", "wokwi-pushbutton", "wokwi-pushbutton",
                                      "wokwi-pushbutton", "wokwi-pushbutton">>)
                   => /\ <<"p1:GND.1", "p2:2.l">> = SubSeq(connections[2], 1, 2)
                      /\ <<"p1:GND.1", "p5:2.l">> = SubSeq(connections[8], 1, 2)

\* C4 witness: an Uno with a standalone resistor and four push buttons has been
\* wired; the 4th button's ground wire leaves GND.1 like the 1st button's.
C4_Witness ==
    /\ pc = "done"
    /\ TypesOf(parts) = <<"wokwi-arduino-uno", "wokwi-pushbutton", "wokwi-resistor",
                          "wokwi-pushbutton", "wokwi-pushbutton", "wokwi-pushbutton">>
    /\ ground_log = <<"GND.1", "GND.2", "GND.3", "GND.1">>
    /\ \E c \in 1..Len(connections) : SubSeq(connections[c], 1, 2) = <<"p1:GND.1", "p6:2.l">>

\* the fallback pins the claim names
ClaimedFallback(cls, op) ==
    IF cls \in {Uno, Nano, Mega}
    THEN CASE op = "digital" -> "2" [] op = "analog" -> "A0" [] op = "pwm" -> "3"
    ELSE CASE op = "digital" -> "2" [] op = "analog" -> "32" [] op = "pwm" -> "2"

\* some connection of the list ends at part q
Touches(conns, q) ==
    \E c \in 1..Len(conns) : PartOfRef(conns[c][1]) = q.id \/ PartOfRef(conns[c][2]) = q.id

\* C5: a call of next_digital, next_analog or next_pwm made when its pool has
\* no unused pin left returns the fixed fallback pin of that operation, every
\* time, and a synthesis call in which that happened still returns a complete
\* diagram: all input parts and a connection for every peripheral.
C5_ExhaustionFallsBack ==
    /\ \A k \in PoolCalls(step_calls) :
           step_calls[k].exhausted =>
               step_calls[k].pin = ClaimedFallback(pin_allocator.cls, step_calls[k].op)
    /\ (pc = "done" /\ mcu # NoPart /\ ~NoFallbackSoFar) =>
           /\ DOMAIN document = {"version", "author", "editor", "parts", "connections",
                                 "dependencies"}
           /\ SubSeq(document.parts, 1, Len(parts)) = parts
           /\ \A k \in 1..Len(parts) :
                  parts[k] # mcu => Touches(document.connections, parts[k])

\* C5 witness: an Uno with four TFT displays (twelve digital pins) and a push
\* button has been synthesized; the button's next_digital call found the pool
\* exhausted and returned "2".
C5_Witness ==
    /\ pc = "done"
    /\ TypesOf(parts) = <<"wokwi-arduino-uno", "board-ili9341-cap-touch",
                          "board-ili9341-cap-touch", "board-ili9341-cap-touch",
                          "board-ili9341-cap-touch", "wokwi-pushbutton">>
    /\ step_calls[1].op = "digital"
    /\ step_calls[1].exhausted
    /\ step_calls[1].pin = "2"
    /\ \E c \in 1..Len(document.connections) :
           SubSeq(document.connections[c], 1, 2) = <<"p1:2", "p6:1.l">>

\* the parts of the list whose type passes the MCU test
McuParts == {k \in 1..Len(parts) : IsMcuType(parts[k].type)}

\* C6: for a parts list with exactly one MCU, the connection list of the
\* returned document (after resistor insertion) has, for every peripheral, a
\* connection with that peripheral's id as an endpoint.
C6_TotalCoverage ==
    (pc = "done" /\ Cardinality(McuParts) = 1) =>
        \A k \in 1..Len(parts) :
            parts[k] # mcu => Touches(document.connections, parts[k])

\* C6 witness: an LED, an Uno and an unrecognized module have been
\* synthesized; R1 was inserted and both peripherals are endpoints of wires.
C6_Witness ==
    /\ pc = "done"
    /\ TypesOf(parts) = <<"wokwi-led", "wokwi-arduino-uno", "mystery-module">>
    /\ Len(document.parts) = 4
    /\ document.parts[4].id = "R1"
    /\ \E c \in 1..Len(document.connections) :
           SubSeq(document.connections[c], 1, 2) = <<"R1:2", "p1:A">>
    /\ \E c \in 1..Len(document.connections) :
           SubSeq(document.connections[c], 1, 2) = <<"p2:3", "p3:SIG">>

\* the connections of the returned document from an MCU ground pin to part q
DocGroundWires(q) ==
    {c \in 1..Len(document.connections) :
        /\ PartOfRef(document.connections[c][2]) = q.id
        /\ PartOfRef(document.connections[c][1]) = mcu.id
        /\ PinOfRef(document.connections[c][1]) \in GroundPinSet(pin_allocator.cls)}

\* the connections of the returned document that end at part q and come from
\* neither a ground pin nor a power rail of the MCU
DocSignalWires(q) ==
    {c \in 1..Len(document.connections) :
        /\ PartOfRef(document.connections[c][2]) = q.id
        /\ ~ /\ PartOfRef(document.connections[c][1]) = mcu.id
             /\ PinOfRef(document.connections[c][1])
                    \in GroundPinSet(pin_allocator.cls) \cup PowerRails(pin_allocator.cls)}

\* C7 as stated: every non-MCU part has at least one ground connection from
\* an MCU ground pin and at least one signal connection, whatever rule it
\* matched.
C7_EveryPartGroundAndSignal ==
    (pc = "done" /\ mcu # NoPart) =>
        \A k \in 1..Len(parts) :
            parts[k] # mcu =>
                /\ DocGroundWires(parts[k]) # {}
                /\ DocSignalWires(parts[k]) # {}

\* C7 amended: every non-MCU part has at least one signal connection; every
\* non-MCU part except those wired by the standalone-resistor rule has at
\* least one ground connection from an MCU ground pin; a part wired by the
\* standalone-resistor rule has exactly two signal connections and no ground
\* connection.
C7_GroundExceptResistorRule ==
    (pc = "done" /\ mcu # NoPart) =>
        \A k \in 1..Len(parts) :
            parts[k] # mcu =>
                /\ DocSignalWires(parts[k]) # {}
                /\ IF Rule(LowerType(parts[k].type)) = "resistor"
                   THEN /\ DocGroundWires(parts[k]) = {}
                        /\ Cardinality(DocSignalWires(parts[k])) = 2
                   ELSE DocGroundWires(parts[k]) # {}

\* C7 witness: an Uno with a standalone resistor and an LED has been
\* synthesized; the resistor has two signal wires and no ground, the LED its
\* ground wire and the signal through the inserted R1.
C7_Witness ==
    /\ pc = "done"
    /\ TypesOf(parts) = <<"wokwi-arduino-uno", "wokwi-resistor", "wokwi-led">>
    /\ DocGroundWires(parts[2]) = {}
    /\ Cardinality(DocSignalWires(parts[2])) = 2
    /\ DocGroundWires(parts[3]) # {}
    /\ \E c \in DocSignalWires(parts[3]) : document.connections[c][1] = "R1:2"

\* the MCU test in the claim's words, on the type as given
NoMcuKeyword(type) ==
    \A x \in {"arduino", "esp32", "mega", "nano"} : ~Contains(x, Lower(type))

\* C9: for a parts list (the empty one included) in which no type contains
\* 'arduino', 'esp32', 'mega' or 'nano' in any letter case, the call returns
\* the document whose only content is the error field "No MCU found"; no
\* allocator is created, no allocator call made, no connection generated and
\* no resistor inserted.
C9_MissingMcuReportedInline ==
    (pc = "done" /\ \A k \in 1..Len(parts) : NoMcuKeyword(parts[k].type)) =>
        /\ document = [error |-> "No MCU found"]
        /\ pin_allocator = NoAllocator
        /\ connections = <<>>
        /\ step_calls = <<>>
        /\ handed = {}
        /\ ground_log = <<>>

\* C9 witness: a list of an LED and an unrecognized module, without MCU, has
\* been answered with the error document.
C9_Witness ==
    /\ pc = "done"
    /\ TypesOf(parts) = <<"wokwi-led", "mystery-module">>
    /\ document = NoMcuDocument
    /\ mcu = NoPart

\* the loop has just wired a part that matches no category keyword
DefaultStep ==
    /\ pc \in {"wiring", "done"}
    /\ part_idx >= 1
    /\ parts[part_idx] # mcu
    /\ Rule(LowerType(parts[part_idx].type)) = "default"

\* the connections so far that end at part q
WiresTo(q) == {c \in 1..Len(connections) : PartOfRef(connections[c][2]) = q.id}

\* the two connections of the default rule are the last two of the list: the
\* ground pin of the round-robin position before the step to GND, the pin the
\* next_digital call returned to SIG
DefaultRuleWires ==
    LET q == parts[part_idx]
        n == Len(connections)
        grounds == get_ground_pins(pin_allocator.cls)
    IN  /\ Len(step_calls) = 2
        /\ step_calls[1].op = "digital"
        /\ step_calls[2].op = "ground"
        /\ WiresTo(q) = {n - 1, n}
        /\ SubSeq(connections[n - 1], 1, 2)
               = <<Ref(mcu.id, grounds[(step_calls[2].ground_before % Len(grounds)) + 1]),
                   Ref(q.id, "GND")>>
        /\ SubSeq(connections[n], 1, 2)
               = <<Ref(mcu.id, step_calls[1].pin), Ref(q.id, "SIG")>>
        /\ step_calls[2].ground_after = step_calls[2].ground_before + 1

\* C8 as stated: a part that matches no category keyword gets exactly two
\* connections, ground pin to GND and digital pin to SIG, and the digital
\* cursor and the ground cursor each advance by exactly one.
C8_DefaultRuleAdvancesByOne ==
    DefaultStep =>
        /\ DefaultRuleWires
        /\ step_calls[1].digital_after = step_calls[1].digital_before + 1

\* C8 amended: a part that matches no category keyword gets exactly two
\* connections, one from the next round-robin MCU ground pin to GND and one
\* from the pin returned by next_digital to SIG; the ground cursor advances by
\* exactly one; the digital cursor moves past every pin already handed out and
\* stops just behind the new pin it returns, or, when no unused pin is left,
\* moves to the end of the list and the fallback "2" is returned.
C8_DefaultRuleSkipsUsedPins ==
    DefaultStep =>
        LET call == step_calls[1]
            pins == digital_pins(pin_allocator.cls)
            skipped == {Str(pins[i]) : i \in (call.digital_before + 1)..(call.digital_after - 1)}
        IN  /\ DefaultRuleWires
            /\ call.digital_after \in call.digital_before..Len(pins)
            /\ IF call.fallback
               THEN /\ call.pin = "2"
                    /\ call.digital_after = Len(pins)
                    /\ \A i \in (call.digital_before + 1)..Len(pins) : Str(pins[i]) \in handed
               ELSE /\ call.digital_after >= call.digital_before + 1
                    /\ call.pin = Str(pins[call.digital_after])
                    /\ call.pin \notin handed
                    /\ skipped \subseteq handed

\* C8 witness: an Uno with a servo (PWM pin 3) and two unrecognized modules;
\* the second module's next_digital call skips pin 3, returns "4" and moves
\* the cursor from 1 to 3.
C8_Witness ==
    /\ DefaultStep
    /\ TypesOf(parts) = <<"wokwi-arduino-uno", "wokwi-servo", "mystery-module", "mystery-module">>
    /\ part_idx = 4
    /\ step_calls[1].pin = "4"
    /\ step_calls[1].digital_before = 1
    /\ step_calls[1].digital_after = 3
    /\ SubSeq(connections[Len(connections)], 1, 2) = <<"p1:4", "p4:SIG">>

\* C10: a synthesis call on a parts list that an earlier call on the same
\* generator was made on, with any calls in between, returns the same parts
\* and the same connections as that earlier call; every call starts its loop
\* with a fresh allocator of the MCU's family, all four cursors at their
\* initial position and no pin used.
C10_DeterminismNoLeakage ==
    /\ (pc = "done" /\ ~remembered.none /\ remembered.parts = parts) =>
           /\ document = remembered.document
           /\ mcu # NoPart =>
                  /\ document.parts = remembered.document.parts
                  /\ document.connections = remembered.document.connections
    /\ (pc = "wiring" /\ part_idx = 0) =>
           /\ pin_allocator.digital_pin_idx = 0
           /\ pin_allocator.analog_pin_idx = 0
           /\ pin_allocator.pwm_pin_idx = 0
           /\ pin_allocator.ground_pin_idx = 0
           /\ pin_allocator.used_pins = {}

\* C10 witness: an Uno with an LED and a servo was synthesized, then a
\* different list, then the first list again, with the same document.
C10_Witness ==
    /\ pc = "done"
    /\ ~remembered.none
    /\ remembered.between
    /\ remembered.parts = parts
    /\ TypesOf(parts) = <<"wokwi-arduino-uno", "wokwi-led", "wokwi-servo">>
    /\ document = remembered.document
    /\ Len(document.connections) = 6

\* C11 as stated: for the Uno "mcu" with the LED "led1" the output document
\* has exactly 3 parts and exactly 2 connections.
C11_LedExampleTwoConnections ==
    (pc = "done" /\ parts = LedExample) =>
        /\ Len(document.parts) = 3
        /\ Len(document.connections) = 2

\* C11 amended: for the Uno "mcu" with the LED "led1" the output document has
\* exactly 3 parts, the two input parts and the inserted resistor R1 of value
\* 220, and exactly 3 connections: mcu:2 -> R1:1 and R1:2 -> led1:A in place of
\* the direct wire, and the ground wire mcu:GND.1 -> led1:C.
C11_LedExampleThreeConnections ==
    (pc = "done" /\ parts = LedExample) =>
        /\ Len(document.parts) = 3
        /\ SubSeq(document.parts, 1, 2) = LedExample
        /\ document.parts[3].type = "wokwi-resistor"
        /\ document.parts[3].id = "R1"
        /\ document.parts[3].attrs = {<<"value", "220">>}
        /\ [c \in 1..Len(document.connections) |-> SubSeq(document.connections[c], 1, 3)]
               = << <<"mcu:2", "R1:1", "red">>,
                    <<"R1:2", "led1:A", "red">>,
                    <<"mcu:GND.1", "led1:C", "black">> >>

\* C11 witness: the LED scenario has been synthesized and R1 sits at the
\* offset (30, -50) from the LED, which has no position of its own.
C11_Witness ==
    /\ pc = "done"
    /\ parts = LedExample
    /\ Len(document.connections) = 3
    /\ document.parts[3] = Part("wokwi-resistor", "R1", 30, -50, {<<"value", "220">>})

IsOled(part) == Rule(LowerType(part.type)) = "oled"

NotOled(part) == ~IsOled(part)

\* the loop has just wired an OLED part
OledStep ==
    /\ pc \in {"wiring", "done"}
    /\ part_idx >= 1
    /\ parts[part_idx] # mcu
    /\ IsOled(parts[part_idx])

\* the four wires of the OLED rule are the last four of the list, and the
\* step called no pool operation
OledRuleWires ==
    LET q == parts[part_idx]
        n == Len(connections)
        cls == pin_allocator.cls
        grounds == get_ground_pins(cls)
        rail == IF get_power_3v3(cls) # "" THEN get_power_3v3(cls) ELSE get_power_5v(cls)
    IN  /\ Len(step_calls) = 1
        /\ step_calls[1].op = "ground"
        /\ step_calls[1].digital_after = step_calls[1].digital_before
        /\ WiresTo(q) = (n - 3)..n
        /\ [c \in 1..4 |-> SubSeq(connections[n - 4 + c], 1, 2)]
               = << <<Ref(mcu.id, grounds[(step_calls[1].ground_before % Len(grounds)) + 1]),
                      Ref(q.id, "GND")>>,
                    <<Ref(mcu.id, rail), Ref(q.id, "VCC")>>,
                    <<Ref(mcu.id, get_i2c_sda(cls)), Ref(q.id, "SDA")>>,
                    <<Ref(mcu.id, get_i2c_scl(cls)), Ref(q.id, "SCL")>> >>
        /\ cls = Esp32 =>
               /\ connections[n - 1][1] = Ref(mcu.id, "21")
               /\ connections[n][1] = Ref(mcu.id, "22")

\* the connections the loop generates for the same list without its OLED parts
WithoutOleds == wired_connections(SelectSeq(parts, NotOled))

InList(conn, conns) == \E c \in 1..Len(conns) : conns[c] = conn

IsGroundWire(conn) ==
    /\ PartOfRef(conn[1]) = mcu.id
    /\ PinOfRef(conn[1]) \in GroundPinSet(pin_allocator.cls)

\* C12 as stated: an OLED part yields exactly four connections, ground, the
\* 3.3V rail, the fixed SDA pin and the fixed SCL pin (ESP32 "21" and "22"),
\* takes no pool pin, and the wires of all other parts are the ones they get
\* in a list without the OLED parts.
C12_OledLeavesOtherPinsUnchanged ==
    /\ OledStep => OledRuleWires
    /\ (pc = "done" /\ mcu # NoPart /\ NotOled(mcu)) =>
           \A c \in 1..Len(WithoutOleds) : InList(WithoutOleds[c], connections)

\* C12 amended: an OLED part yields exactly four connections, ground, the
\* 3.3V rail, the fixed SDA pin and the fixed SCL pin (ESP32 "21" and "22"),
\* and takes no pin from the digital, analog or PWM pools, so all OLED parts
\* share SDA and SCL and every wire of another part that does not leave an MCU
\* ground pin is the one it gets in a list without the OLED parts; the OLED
\* rule does take the next ground pin of the round-robin cycle, so the ground
\* pin of a part behind an OLED can differ: a ground wire keeps its target,
\* color and path and leaves some ground pin of the MCU.
C12_OledLeavesPoolPinsUnchanged ==
    /\ OledStep => OledRuleWires
    /\ (pc = "done" /\ mcu # NoPart /\ NotOled(mcu)) =>
           \A c \in 1..Len(WithoutOleds) :
               LET conn == WithoutOleds[c]
               IN  IF IsGroundWire(conn)
                   THEN \E d \in 1..Len(connections) :
                            /\ IsGroundWire(connections[d])
                            /\ SubSeq(connections[d], 2, 4) = SubSeq(conn, 2, 4)
                   ELSE InList(conn, connections)

\* C12 witness: an ESP32 with an OLED and a push button behind it; the OLED
\* is on 3.3V, 21 and 22 and GND.1, the button has pin 2 as it would without
\* the OLED, and GND.2.
C12_Witness ==
    /\ pc = "done"
    /\ TypesOf(parts) = <<"wokwi-ESP32-devkit-v1", "board-ssd1306", "wokwi-pushbutton">>
    /\ [c \in 1..Len(connections) |-> SubSeq(connections[c], 1, 2)]
           = << <<"p1:GND.1", "p2:GND">>, <<"p1:3.3V", "p2:VCC">>,
                <<"p1:21", "p2:SDA">>, <<"p1:22", "p2:SCL">>,
                <<"p1:2", "p3:1.l">>, <<"p1:GND.2", "p3:2.l">> >>
    /\ SubSeq(WithoutOleds[2], 1, 2) = <<"p1:GND.1", "p3:2.l">>

\* add_automatic_resistors has run on parts and connections; document holds
\* what it returned
Inserted == pc \in {"inserted", "inserted_again"}

IsResistorType(part) == Contains("resistor", LowerType(part.type))

IsLedType(part) == Contains("led", LowerType(part.type))

IsPiezoType(part) == Contains("piezo", LowerType(part.type))

\* the LED q has a resistor part wired to its anode in the inserter's input
AlreadyProtected(q) ==
    /\ IsLedType(q)
    /\ \E r \in 1..Len(parts) :
           /\ IsResistorType(parts[r])
           /\ \E c \in 1..Len(connections) :
                  \/ /\ PartOfRef(connections[c][1]) = parts[r].id
                     /\ connections[c][2] = Ref(q.id, "A")
                  \/ /\ PartOfRef(connections[c][2]) = parts[r].id
                     /\ connections[c][1] = Ref(q.id, "A")

\* the wires of a list that begin or end at part q, in list order
WiresOf(conns, q) ==
    LET AtQ(conn) == PartOfRef(conn[1]) = q.id \/ PartOfRef(conn[2]) = q.id
    IN  SelectSeq(conns, AtQ)

\* the LEDs and piezo buzzers of the input that are not already protected
Unprotected ==
    {k \in 1..Len(parts) :
        (IsLedType(parts[k]) \/ IsPiezoType(parts[k])) /\ ~AlreadyProtected(parts[k])}

\* C13: the inserter run on a diagram in which an LED already has a resistor
\* part wired to its anode adds no resistor for that LED and leaves the LED's
\* connections as they are; run on its own output it returns the same parts
\* and the same connections, as for the Uno + LED diagram.
C13_ResistorIdempotence ==
    /\ Inserted =>
           /\ \A k \in 1..Len(parts) :
                  AlreadyProtected(parts[k]) =>
                      WiresOf(document.connections, parts[k]) = WiresOf(connections, parts[k])
           /\ Len(document.parts) - Len(parts) <= Cardinality(Unprotected)
           /\ SubSeq(document.parts, 1, Len(parts)) = parts
    /\ pc = "inserted_again" =>
           /\ document.parts = parts
           /\ document.connections = connections

\* C13 witness: the inserter has run a second time on the Uno + LED diagram
\* with R1 in it and returned the three parts and three connections it got.
C13_Witness ==
    /\ pc = "inserted_again"
    /\ Len(parts) = 3
    /\ SubSeq(parts, 1, 2) = LedExample
    /\ parts[3].id = "R1"
    /\ AlreadyProtected(parts[2])
    /\ document.parts = parts
    /\ Len(document.connections) = 3

\* the pin the inserter protects on part q, "" if it protects none
ProtectedPin(q) ==
    IF Rule(LowerType(q.type)) = "led" THEN "A"
    ELSE IF IsPiezoType(q) /\ ~IsLedType(q) THEN "2"
    ELSE ""

\* the resistor parts the call added behind the input parts
AddedParts == (Len(parts) + 1)..Len(document.parts)

\* wire o of the loop's list, which drove the protected pin of q, has become
\* the two hops through the added part n
TwoHops(o, q, n) ==
    LET r == document.parts[n]
        conns == document.connections
    IN  /\ r = Part("wokwi-resistor", r.id,
                    Get(q, "top", 0) + 30, Get(q, "left", 0) - 50,
                    {<<"value", IF ProtectedPin(q) = "A" THEN "220" ELSE "100">>})
        /\ \A k \in 1..Len(parts) : parts[k].id # r.id
        /\ \E c \in 1..(Len(conns) - 1) :
               /\ conns[c] = <<o[1], Ref(r.id, "1"), o[3], o[4]>>
               /\ conns[c + 1] = <<Ref(r.id, "2"), o[2], o[3], <<"h10", "*", "h-5">>>>
               /\ \A d \in 1..Len(conns) :
                      (PartOfRef(conns[d][1]) = r.id \/ PartOfRef(conns[d][2]) = r.id)
                          => d \in {c, c + 1}

Receiving ==
    LET items == components_needing_resistors(1, parts, connections)
    IN  {items[k].component : k \in 1..Len(items)}

\* the connection ends at the anode of an LED or at the signal pin of a piezo
\* buzzer that receives a resistor
DrivesProtectedPin(conn) ==
    \E q \in Receiving :
        conn[2] = Ref(q.id, IF IsLedType(q) THEN "A" ELSE "2")

PassesThrough(conn) == ~DrivesProtectedPin(conn)

AddedIds == {document.parts[n].id : n \in AddedParts}

\* the connection begins or ends at a resistor the inserter added
IsHop(conn) == PartOfRef(conn[1]) \in AddedIds \/ PartOfRef(conn[2]) \in AddedIds

NotHop(conn) == ~IsHop(conn)

\* C15: the inserter changes nothing else: the input connections that do not
\* end at the protected pin of a part that receives a resistor are in the
\* output exactly once, with the same source, target, color and path and in
\* the same relative order, and every other connection of the output is one
\* of the two hops through an added resistor, two for each replaced wire.
C15_InserterFrame ==
    Inserted =>
        /\ SelectSeq(document.connections, NotHop) = SelectSeq(connections, PassesThrough)
        /\ Len(SelectSeq(document.connections, IsHop))
               = 2 * Len(SelectSeq(connections, DrivesProtectedPin))
        /\ \A c \in 1..Len(document.connections) :
               IsHop(document.connections[c]) =>
                   \E o \in 1..Len(connections) :
                       /\ DrivesProtectedPin(connections[o])
                       /\ connections[o][3] = document.connections[c][3]
                       /\ \/ /\ document.connections[c][1] = connections[o][1]
                             /\ PinOfRef(document.connections[c][2]) = "1"
                          \/ /\ document.connections[c][2] = connections[o][2]
                             /\ PinOfRef(document.connections[c][1]) = "2"

\* C15 witness: the hand-wired diagram with the protected LED p2 and the
\* unprotected LED p4; the five input wires but the one to p4:A are in the
\* output as they were, and that one runs through R1.
C15_Witness ==
    /\ pc = "inserted"
    /\ Len(parts) = 4
    /\ connections[2] = Wire("p3:2", "p2:A", "red")
    /\ SelectSeq(connections, DrivesProtectedPin) = <<Wire("p1:3", "p4:A", "red")>>
    /\ Len(document.connections) = 6
    /\ SubSeq(document.connections, 1, 3) = SubSeq(connections, 1, 3)
    /\ document.connections[4] = Wire("p1:3", "R1:1", "red")
    /\ document.connections[6] = connections[5]


(***************************************************************************)
(* The oracles                                                             *)
(***************************************************************************)

\* the document generate_diagram handed to gemini_double_check
InitialDocument == IF oracle.model = "json" THEN oracle.model_doc ELSE document

HasSchema(d) == "parts" \in DOMAIN d /\ "connections" \in DOMAIN d

\* C16: when generate_diagram has returned after Gemini answered a JSON
\* object with parts and connections, the answer is the result if and only if
\* it has as many parts as the initial document handed to the oracle (which
\* counts the inserted resistors); otherwise the initial document is the result.
C16_ResultKeepsInitialPartCount ==
    (/\ pc = "returned"
     /\ oracle.posted
     /\ oracle.gemini = "json"
     /\ HasSchema(oracle.gemini_doc)
     /\ "parts" \in DOMAIN InitialDocument)
    => IF Len(oracle.gemini_doc.parts) = Len(InitialDocument.parts)
       THEN result = oracle.gemini_doc
       ELSE result = InitialDocument

ModelFailed ==
    \/ oracle.model \in ModelFailures
    \/ oracle.model = "json" /\ ~HasSchema(oracle.model_doc)

GeminiFailed ==
    \/ oracle.gemini \in GeminiFailures
    \/ oracle.gemini = "json" /\ ~HasSchema(oracle.gemini_doc)

\* C17: when generate_diagram has returned and every oracle it consulted
\* failed (no JSON, or JSON without parts or connections), the result is the
\* document generate_with_patterns produces for the same parts.
C17_FailedOraclesLeaveDeterministicResult ==
    (/\ pc = "returned"
     /\ ModelFailed \/ GeminiFailed
     /\ oracle.model # "" => ModelFailed
     /\ oracle.gemini # "" => GeminiFailed)
    => result = generate_with_patterns(parts)

GeminiKeySet ==
    "GEMINI_API_KEY" \in DOMAIN environ /\ environ["GEMINI_API_KEY"] # ""

\* C18: the constructed generator holds a non-empty key if and only if the
\* variable GEMINI_API_KEY is set (in the environment or by the .env file),
\* and a generate_diagram call that has returned has submitted a document to
\* Gemini if and only if the variable is set.
C18_GeminiKeyEnablesDoubleCheck ==
    /\ Truthy(gemini_api_key) <=> GeminiKeySet
    /\ pc = "returned" => (oracle.posted <=> GeminiKeySet)


(***************************************************************************)
(* Part ids                                                                *)
(***************************************************************************)

DistinctIds(ps) == \A i, j \in 1..Len(ps) : i # j => ps[i].id # ps[j].id

\* C19: when the ids of the input parts are pairwise distinct, the ids of the
\* parts of the returned diagram (input parts and inserted resistors) are
\* pairwise distinct.
C19_OutputIdsUnique ==
    (pc = "done" /\ "parts" \in DOMAIN document /\ DistinctIds(parts))
    => DistinctIds(document.parts)


(***************************************************************************)
(* Wire colors                                                             *)
(***************************************************************************)

\* the color convention on one connection that leaves the MCU
ConventionalColor(conn) ==
    /\ conn[3] = "red" <=> PinOfRef(conn[1]) \in PowerRails(pin_allocator.cls)
    /\ conn[3] = "black" <=> PinOfRef(conn[1]) \in GroundPinSet(pin_allocator.cls)

\* C20: in every returned diagram, a connection that leaves an MCU pin is red
\* if and only if the pin is a power rail and black if and only if the pin is
\* a ground pin, so signal and bus connections are neither red nor black.
C20_WireColorConvention ==
    (pc = "done" /\ mcu # NoPart) =>
        \A c \in 1..Len(document.connections) :
            PartOfRef(document.connections[c][1]) = mcu.id
            => ConventionalColor(document.connections[c])


(***************************************************************************)
(* The rule table                                                          *)
(***************************************************************************)

\* the wires of each category in the table: the kind of MCU pin and the pin
\* of the part it goes to
TableWires(rule) ==
    CASE rule = "oled" ->
             {<<"ground", "GND">>, <<"power", "VCC">>, <<"sda", "SDA">>, <<"scl", "SCL">>}
      [] rule = "tft" ->
             {<<"ground", "GND">>, <<"5v", "VCC">>, <<"digital", "CS">>,
              <<"digital", "RESET">>, <<"digital", "DC">>, <<"mosi", "MOSI">>,
              <<"miso", "MISO">>, <<"sck", "SCK">>}
      [] rule = "sd" ->
             {<<"ground", "GND">>, <<"5v", "VCC">>, <<"digital", "CS">>,
              <<"mosi", "MOSI">>, <<"miso", "MISO">>, <<"sck", "SCK">>}
      [] rule = "button" -> {<<"digital", "1.l">>, <<"ground", "2.l">>}
      [] rule = "buzzer" -> {<<"ground", "1">>, <<"digital", "2">>}
      [] rule = "led" -> {<<"digital", "A">>, <<"ground", "C">>}
      [] rule = "resistor" -> {<<"digital", "1">>, <<"digital", "2">>}
      [] rule = "dht" -> {<<"ground", "GND">>, <<"5v", "VCC">>, <<"digital", "SDA">>}
      [] rule = "servo" -> {<<"ground", "GND">>, <<"5v", "V+">>, <<"pwm", "PWM">>}
      [] rule = "ultrasonic" ->
             {<<"ground", "GND">>, <<"5v", "VCC">>, <<"digital", "TRIG">>,
              <<"digital", "ECHO">>}
      [] rule = "potentiometer" -> {<<"ground", "GND">>, <<"5v", "VCC">>, <<"analog", "SIG">>}
      [] rule = "default" -> {<<"ground", "GND">>, <<"digital", "SIG">>}

\* the number of connections the table gives each category
TableCount(rule) ==
    CASE rule = "oled" -> 4
      [] rule = "tft" -> 8
      [] rule = "sd" -> 6
      [] rule \in {"button", "buzzer", "led", "resistor", "default"} -> 2
      [] rule \in {"dht", "servo", "potentiometer"} -> 3
      [] rule = "ultrasonic" -> 4

PinNames(pins) == {Str(pins[k]) : k \in 1..Len(pins)}

\* the MCU pins of a kind
KindPins(cls, kind) ==
    CASE kind = "ground" -> GroundPinSet(cls)
      [] kind = "5v" -> {"5V"}
      [] kind = "power" -> {"3.3V", "5V"}
      [] kind = "digital" -> PinNames(digital_pins(cls))
      [] kind = "analog" -> PinNames(analog_pins(cls))
      [] kind = "pwm" -> PinNames(pwm_pins(cls))
      [] kind = "sda" -> {get_i2c_sda(cls)}
      [] kind = "scl" -> {get_i2c_scl(cls)}
      [] kind = "mosi" -> {get_spi_pins(cls).mosi}
      [] kind = "miso" -> {get_spi_pins(cls).miso}
      [] kind = "sck" -> {get_spi_pins(cls).sck}

\* the loop has just wired the part parts[part_idx]
RuleStep ==
    /\ pc \in {"wiring", "done"}
    /\ part_idx >= 1
    /\ parts[part_idx] # mcu

CallsOf(op) == {k \in 1..Len(step_calls) : step_calls[k].op = op}

\* the part just wired got the wires of its category in the table, as the
\* last connections of the list, and its branch made one pool or ground call
\* for each wire of the table that needs one
TableFollowed ==
    LET q == parts[part_idx]
        rule == Rule(LowerType(q.type))
        n == Len(connections)
        last == (n - TableCount(rule) + 1)..n
    IN  /\ Cardinality(TableWires(rule)) = TableCount(rule)
        /\ n >= TableCount(rule)
        /\ WiresTo(q) = last
        /\ \A w \in TableWires(rule) :
               Cardinality({c \in last :
                   /\ connections[c][2] = Ref(q.id, w[2])
                   /\ PartOfRef(connections[c][1]) = mcu.id
                   /\ PinOfRef(connections[c][1]) \in KindPins(pin_allocator.cls, w[1])}) = 1
        /\ \A op \in {"digital", "analog", "pwm", "ground"} :
               Cardinality(CallsOf(op))
                   = Cardinality({w \in TableWires(rule) : w[1] = op})
        /\ \A k \in 1..Len(step_calls) :
               step_calls[k].op \in {"digital", "analog", "pwm", "ground"}

\* C21 as stated: every part just wired has the connection set and the call
\* counts of its category in the table, and the three digital pins of a TFT
\* display are distinct.
C21_RuleTableDistinctPins ==
    RuleStep =>
        /\ TableFollowed
        /\ Rule(LowerType(parts[part_idx].type)) = "tft"
           => \A i, j \in CallsOf("digital") :
                  i # j => step_calls[i].pin # step_calls[j].pin

\* C21 amended: every part just wired has the connection set and the call
\* counts of its category in the table; the three digital pins of a TFT
\* display are distinct as far as they come from calls that found an unused
\* pin, and every call on the exhausted digital pool returns "2".
C21_RuleTable ==
    RuleStep =>
        /\ TableFollowed
        /\ Rule(LowerType(parts[part_idx].type)) = "tft"
           => \A i, j \in CallsOf("digital") :
                  /\ (i # j /\ ~step_calls[i].fallback /\ ~step_calls[j].fallback)
                     => step_calls[i].pin # step_calls[j].pin
                  /\ step_calls[i].fallback => step_calls[i].pin = "2"

\* C21 witness: the fifth TFT display behind an Uno has its eight wires, and
\* CS, RESET and DC all leave pin 2.
C21_Witness ==
    /\ RuleStep
    /\ part_idx = 6
    /\ Rule(LowerType(parts[6].type)) = "tft"
    /\ pin_allocator.cls = Uno
    /\ Len(connections) = 40
    /\ connections[35][1] = "p1:2" /\ connections[35][2] = "p6:CS"
    /\ connections[36][1] = "p1:2" /\ connections[36][2] = "p6:RESET"
    /\ connections[37][1] = "p1:2" /\ connections[37][2] = "p6:DC"


(***************************************************************************)
(* The wire router                                                         *)
(***************************************************************************)

PathKeys ==
    {"power", "power_alt", "analog1", "analog2", "digital1", "digital2",
     "digital_alt1", "digital_alt2"}

\* the directives 'v<int>' of magnitude at most 150 and 'h<int>' of
\* magnitude at most 50
VDirectives == {"v" \o ToString(n) : n \in -150..150}
HDirectives == {"h" \o ToString(n) : n \in -50..50}

Stars(path) == Cardinality({k \in 1..Len(path) : path[k] = "*"})

\* one tenth of a position delta, truncated toward zero, clamped to
\* [-bound, bound]
ExpectedOffset(delta, bound) ==
    LET tenth == IF delta >= 0 THEN delta \div 10 ELSE -((-delta) \div 10)
    IN  IF tenth > bound THEN bound ELSE IF tenth < -bound THEN -bound ELSE tenth

\* C22: the mapping of the wire router has exactly the eight keys; every
\* directive is '*', 'v<int>' of magnitude at most 150 or 'h<int>' of
\* magnitude at most 50; every path has exactly one '*'; the offsets in the
\* paths are the tenth of the position delta, truncated toward zero and
\* clamped to [-100, 100] vertically and [-150, 150] horizontally.
C22_RouterPaths ==
    pc = "routed" =>
        LET v == ExpectedOffset(Get(parts[1], "top", 0) - Get(mcu, "top", 0), 100)
            h == ExpectedOffset(Get(parts[1], "left", 0) - Get(mcu, "left", 0), 150)
        IN  /\ DOMAIN paths = PathKeys
            /\ \A key \in PathKeys :
                   /\ Stars(paths[key]) = 1
                   /\ \A k \in 1..Len(paths[key]) :
                          paths[key][k] \in VDirectives \cup HDirectives \cup {"*"}
            /\ paths["power"]
                   = IF v = 0 THEN <<"*">>
                     ELSE <<"v" \o ToString(v), "*", "v" \o ToString((-v) \div 3)>>
            /\ paths["analog1"][IF v = 25 THEN 1 ELSE 2] = "h" \o ToString(h \div 3)

\* C22 witness: a component 100000 above and 100000 to the right of the MCU
\* is routed with the clamped offsets -100 and 150.
C22_Witness ==
    /\ pc = "routed"
    /\ mcu = BarePart("wokwi-arduino-uno", "mcu")
    /\ "top" \in DOMAIN parts[1]
    /\ parts[1].top = -100000
    /\ parts[1].left = 100000
    /\ paths["analog1"] = <<"v-125", "h50", "*", "v25">>
    /\ paths["digital_alt2"] = <<"v-150", "h18", "*", "v11">>


\* C23: the eight paths of the wire router are pairwise different, and in
\* the connection list of the returned diagram no two connections that end at
\* the same part have the same path.
C23_NoSharedRoute ==
    /\ pc = "routed" =>
           \A k1, k2 \in PathKeys : k1 # k2 => paths[k1] # paths[k2]
    /\ (pc \in {"done", "routed"} /\ mcu # NoPart /\ document # NoDocument) =>
           \A i, j \in 1..Len(document.connections) :
               (/\ i # j
                /\ PartOfRef(document.connections[i][2])
                       = PartOfRef(document.connections[j][2]))
               => document.connections[i][4] # document.connections[j][4]

\* C23 witness: a TFT display 350 below the MCU (vertical offset 35, the
\* special case of digital1) has eight wires on eight different paths.
C23_Witness ==
    /\ pc = "routed"
    /\ document # NoDocument
    /\ mcu = BarePart("wokwi-arduino-uno", "mcu")
    /\ parts[2].type = "board-ili9341-cap-touch"
    /\ parts[2].top = 350
    /\ parts[2].left = 500
    /\ paths["digital1"] = <<"h10", "*", "h-5">>
    /\ Len(document.connections) = 8
    /\ Cardinality({document.connections[c][4] : c \in 1..8}) = 8


(***************************************************************************)
(* The parts of the returned diagram                                       *)
(***************************************************************************)

\* the inserter adds a resistor for part q: an LED or piezo type without a
\* resistor on it
GetsResistor(q) ==
    /\ IsLedType(q) \/ IsPiezoType(q)
    /\ ~has_resistor(q.id, parts, connections)

\* the parts of the returned diagram are the input parts, unchanged and in
\* input order, followed by one resistor R1, R2, ... for each part that gets
\* one, in the input order of those parts and placed next to them
PartsAppended ==
    (pc = "done" /\ mcu # NoPart) =>
        LET out == document.parts
            n == Len(parts)
            prot == SelectSeq(parts, GetsResistor)
        IN  /\ Len(out) = n + Len(prot)
            /\ SubSeq(out, 1, n) = parts
            /\ \A k \in 1..Len(prot) :
                   /\ out[n + k].type = "wokwi-resistor"
                   /\ out[n + k].id = "R" \o ToString(k)
                   /\ out[n + k].top = Get(prot[k], "top", 0) + 30
                   /\ out[n + k].left = Get(prot[k], "left", 0) - 50
                   /\ \E c \in 1..Len(document.connections) :
                          /\ PartOfRef(document.connections[c][1]) = out[n + k].id
                          /\ PartOfRef(document.connections[c][2]) = prot[k].id

\* C24: the output parts are the input parts, unchanged and in order,
\* followed by the inserted resistors in the input order of the parts they
\* protect, and no step of a synthesis call changes the caller's parts list.
C24_PartsOnlyAppended ==
    /\ []PartsAppended
    /\ [][pc # "idle" => parts' = parts]_vars

\* C24 witness: an ESP32, a piezo buzzer and an LED give five parts, the
\* three of the input and then R1 (100 ohm, next to the buzzer) and R2
\* (220 ohm, next to the LED).
C24_Witness ==
    /\ pc = "done"
    /\ TypesOf(parts) = <<"wokwi-esp32-devkit-v1", "wokwi-piezo-buzzer", "wokwi-led">>
    /\ Len(document.parts) = 5
    /\ SubSeq(document.parts, 1, 3) = parts
    /\ document.parts[4] = Part("wokwi-resistor", "R1", parts[2].top + 30,
                                parts[2].left - 50, {<<"value", "100">>})
    /\ document.parts[5] = Part("wokwi-resistor", "R2", parts[3].top + 30,
                                parts[3].left - 50, {<<"value", "220">>})


\* the connections of the returned diagram that end at / leave the reference
Into(ref) == {c \in 1..Len(document.connections) : document.connections[c][2] = ref}
OutOf(ref) == {c \in 1..Len(document.connections) : document.connections[c][1] = ref}

\* C25: every resistor the inserter added to the returned diagram is in
\* line: exactly one connection ends at its pin 1 and exactly one connection
\* leaves its pin 2.
C25_InsertedResistorInLine ==
    (pc = "done" /\ mcu # NoPart) =>
        \A n \in (Len(parts) + 1)..Len(document.parts) :
            /\ Cardinality(Into(Ref(document.parts[n].id, "1"))) = 1
            /\ Cardinality(OutOf(Ref(document.parts[n].id, "2"))) = 1


(***************************************************************************)
(* The wiring graph                                                        *)
(***************************************************************************)

OutputIds == {document.parts[n].id : n \in 1..Len(document.parts)}

ResistorIds == {document.parts[n].id : n \in (Len(parts) + 1)..Len(document.parts)}

\* C26: in every returned diagram both endpoints of every connection name
\* the id of a part of the output parts list, and the source of every
\* connection is a pin of the hub MCU or of an inserted resistor.
C26_ReferentialIntegrity ==
    (pc = "done" /\ mcu # NoPart) =>
        \A c \in 1..Len(document.connections) :
            /\ PartOfRef(document.connections[c][1]) \in OutputIds
            /\ PartOfRef(document.connections[c][2]) \in OutputIds
            /\ PartOfRef(document.connections[c][1]) \in {mcu.id} \cup ResistorIds

\* C26 witness: the LED scenario; the three connections run mcu -> R1,
\* R1 -> led1 and mcu -> led1 between the three parts mcu, led1 and R1.
C26_Witness ==
    /\ pc = "done"
    /\ parts = LedExample
    /\ OutputIds = {"mcu", "led1", "R1"}
    /\ ResistorIds = {"R1"}
    /\ {<<PartOfRef(document.connections[c][1]), PartOfRef(document.connections[c][2])>> :
            c \in 1..Len(document.connections)}
           = {<<"mcu", "R1">>, <<"R1", "led1">>, <<"mcu", "led1">>}


\* C27: in the diagram returned for a parts list with pairwise distinct ids,
\* no endpoint 'partId:pin' is the target of two connections.
C27_NoPinDrivenTwice ==
    (pc = "done" /\ mcu # NoPart /\ DistinctIds(parts)) =>
        \A i, j \in 1..Len(document.connections) :
            i # j => document.connections[i][2] # document.connections[j][2]


(***************************************************************************)
(* User-supplied resistors                                                 *)
(***************************************************************************)

\* the input parts the inserter looks at: those whose type contains 'led' or
\* 'piezo'
NeedsResistor == {k \in 1..Len(parts) : IsLedType(parts[k]) \/ IsPiezoType(parts[k])}

\* C28: a resistor of the input never counts as protection: the
\* existing-resistor check is false for every LED and piezo buzzer, and the
\* number of resistors the inserter adds equals the number of input parts
\* whose type contains 'led' or 'piezo'.
C28_InputResistorNeverProtects ==
    (pc = "done" /\ mcu # NoPart) =>
        /\ \A k \in NeedsResistor : ~has_resistor(parts[k].id, parts, connections)
        /\ Len(document.parts) - Len(parts) = Cardinality(NeedsResistor)

\* Test 1 of test_wiring.py gives four parts
C28_WiringTest1 ==
    (pc = "done" /\ parts = WiringTest1) =>
        [k \in 1..Len(document.parts) |-> document.parts[k].id] = <<"uno", "led1", "r1", "R1">>


(***************************************************************************)
(* The hub                                                                 *)
(***************************************************************************)

\* the positions of the MCU-like parts of the input
McuLike == {k \in 1..Len(parts) : IsMcuType(parts[k].type)}

\* the allocator family a hub type stands for
Family(type) ==
    LET t == LowerType(type)
    IN  CASE Contains("esp32", t) -> Esp32
          [] ~Contains("esp32", t) /\ Contains("mega", t) -> Mega
          [] ~Contains("esp32", t) /\ ~Contains("mega", t) /\ Contains("uno", t) -> Uno
          [] ~Contains("esp32", t) /\ ~Contains("mega", t) /\ ~Contains("uno", t)
                /\ Contains("nano", t) -> Nano
          [] OTHER -> Uno

\* part k is the target of a wire
Wired(k) ==
    \E c \in 1..Len(connections) : PartOfRef(connections[c][2]) = parts[k].id

\* C29: the hub is the first MCU-like part of the input; the allocator is of
\* the family of the hub's type during the whole call; every later MCU-like
\* part is wired as a peripheral of the hub; every connection of the wiring
\* rules has the hub as its source.
C29_SingleHub ==
    /\ (pc \in {"wiring", "done"} /\ mcu # NoPart) =>
            /\ McuLike # {}
            /\ \E h \in McuLike : (\A j \in McuLike : h <= j) /\ mcu = parts[h]
            /\ pin_allocator.cls = Family(mcu.type)
            /\ \A c \in 1..Len(connections) : PartOfRef(connections[c][1]) = mcu.id
    /\ (pc = "done" /\ mcu # NoPart) =>
            \A k \in McuLike : parts[k] # mcu => Wired(k)

\* an ESP32 behind an LED and before an Uno is the hub of both
C29_Witness ==
    /\ pc = "done"
    /\ [k \in 1..Len(parts) |-> parts[k].type]
           = <<"wokwi-led", "wokwi-esp32-devkit-v1", "wokwi-arduino-uno">>
    /\ mcu = parts[2]
    /\ pin_allocator.cls = Esp32
    /\ Wired(1) /\ Wired(3) /\ ~Wired(2)


(***************************************************************************)
(* Progressive builds                                                      *)
(***************************************************************************)

\* sequence a is the beginning of sequence b
IsPrefix(a, b) == Len(a) <= Len(b) /\ SubSeq(b, 1, Len(a)) = a

\* the input of the call without its last part
Earlier == SubSeq(parts, 1, Len(parts) - 1)

\* C30: for a parts list that starts with the MCU, the connections of the
\* diagram synthesized without the last part are the beginning of the
\* connections of the diagram synthesized with it.
C30_ProgressiveBuildsStable ==
    (pc = "done" /\ Len(parts) >= 2 /\ mcu = parts[1]) =>
        IsPrefix(generate_with_patterns(Earlier).connections, document.connections)

====
